---- MODULE Spec2Model ----
(***************************************************************************)
(* Scribe (packages/scribe): extraction, filtering and concurrent          *)
(* execution of the code fences of markdown documents.                     *)
(*                                                                         *)
(* Strings are modelled as sequences of one-character strings, so that     *)
(* String.prototype.includes and toLowerCase are computed, not assumed.    *)
(* JavaScript runs one task at a time: an action is the code that runs     *)
(* between two suspension points (await) of run(), worker() and runBlock().*)
(***************************************************************************)
EXTENDS Integers, Sequences, FiniteSets, TLC

(***************************************************************************)
(* Bounds of the model.                                                    *)
(***************************************************************************)
\* longest list of fenced blocks in the scanned documents
MaxBlocks == 3
\* largest concurrency given to run()
MaxConc == 3
\* longest block list given to filterTestableBlocks on its own
MaxFilterLen == 2
\* most callbacks of the spinner's timer in one run
MaxTicks == 2
\* most lines of an error message given to the reporter on its own
MaxErrLines == 2
\* most blocks of each of two run() calls made in one process
MaxRunBlocks == 2
\* most logical CPUs of the host
MaxCpus == 4
\* greatest number of regular files in a scanned tree
MaxFiles == 3
\* most calls of require made by one block
MaxRequires == 2
\* most lines of the documents of one run, taken together
MaxLines == 4

VARIABLES
    target,        \* what stat(targetPath) finds: "missing", "file" or "dir"
    concurrency,   \* options.concurrency
    rawBlocks,     \* the blocks parseMarkdown returns for the documents, in scan order
    allBlocks,     \* run(): allBlocks
    results,       \* run(): results (index -> {} for a hole, {r} for a RunResult)
    nextIndex,     \* run(): nextIndex
    runningTests,  \* run(): runningTests (the keys of the Map)
    passed,        \* run(): passed
    failed,        \* run(): failed
    workers,       \* the worker() calls: position and local variables of each
    stdout,        \* what io.write received, in order
    stderr,        \* what io.writeError received, in order
    runPc,         \* position of run()
    runResult,     \* the value run() resolved with ({} until then)
    exitCode,      \* the process exit code ({} while the process is alive)
    execCount,     \* number of runBlock calls per index
    writeCount,    \* number of assignments results[index] = ... per index
    spawned,       \* number of worker() calls made by run()
    interactive,   \* cli: useInteractiveOutput (a terminal, and not CI)
    live,          \* the region logUpdate last drew: the indices listed ({} when cleared)
    timerOn,       \* run(): animationInterval is set and not cleared
    spinnerIndex,  \* cli: spinnerIndex (module level)
    completed,     \* the indices in the order their results were recorded
    env,           \* the host's process.env: the names the blocks have set
    host,          \* what the cli module read when it was loaded: stdout.isTTY, CI, GITHUB_ACTIONS
    liveUsed,      \* logUpdate, logUpdate.clear or the spinner's timer has been used
    timers,        \* callbacks the blocks gave to the injected setTimeout: <<index, "pending" or "ran">>
    scopes,        \* two run() calls in one process: the variables their closures share
    calls,         \* two run() calls in one process: blocks, results, workers, position
    fin,           \* argument of a function applied on its own
    fout,          \* its return value
    fpc            \* "idle", "in" (argument chosen) or "out" (returned)

vars == <<target, concurrency, rawBlocks, allBlocks, results, nextIndex,
          runningTests, passed, failed, workers, stdout, stderr, runPc,
          runResult, exitCode, execCount, writeCount, spawned, interactive,
          live, timerOn, spinnerIndex, completed, env, host, liveUsed, timers,
          scopes, calls,
          fin, fout, fpc>>

runVars == <<target, concurrency, rawBlocks, allBlocks, results, nextIndex,
             runningTests, passed, failed, workers, stdout, stderr, runPc,
             runResult, exitCode, execCount, writeCount, spawned, interactive,
             live, timerOn, spinnerIndex, completed, env, host, liveUsed, timers>>

fnVars == <<fin, fout, fpc>>

runsVars == <<scopes, calls>>

\* what the actions of run() leave alone
auxVars == <<fin, fout, fpc, scopes, calls>>

(***************************************************************************)
(* Strings.                                                                *)
(***************************************************************************)
S_empty == << >>
S_ts == <<"t", "s">>
S_TS == <<"T", "S">>
S_js == <<"j", "s">>
S_Js == <<"J", "s">>
S_jsx == <<"j", "s", "x">>
S_py == <<"p", "y">>
S_text == <<"t", "e", "x", "t">>
S_typescript == <<"t", "y", "p", "e", "s", "c", "r", "i", "p", "t">>
S_javascript == <<"j", "a", "v", "a", "s", "c", "r", "i", "p", "t">>
S_nocheck == <<"n", "o", "c", "h", "e", "c", "k">>
S_scribe_nocheck == <<"s", "c", "r", "i", "b", "e", " ">> \o S_nocheck
S_nocheck_scribe == S_nocheck \o <<" ", "s", "c", "r", "i", "b", "e">>
S_nochecksum == S_nocheck \o <<"s", "u", "m">>
S_donocheck == <<"d", "o">> \o S_nocheck
S_scribe == <<"s", "c", "r", "i", "b", "e">>
\* the value undefined of a CodeBlock without meta; it is no string: its one
\* element is not a character
Undefined == <<"<undefined>">>

UpperCase == <<"A", "B", "C", "D", "E", "F", "G", "H", "I", "J", "K", "L", "M",
               "N", "O", "P", "Q", "R", "S", "T", "U", "V", "W", "X", "Y", "Z">>
LowerCase == <<"a", "b", "c", "d", "e", "f", "g", "h", "i", "j", "k", "l", "m",
               "n", "o", "p", "q", "r", "s", "t", "u", "v", "w", "x", "y", "z">>

ToLowerChar(c) ==
    IF \E i \in 1..Len(UpperCase) : UpperCase[i] = c
    THEN LowerCase[CHOOSE i \in 1..Len(UpperCase) : UpperCase[i] = c]
    ELSE c

\* String.prototype.toLowerCase
toLowerCase(s) == [i \in 1..Len(s) |-> ToLowerChar(s[i])]

\* String.prototype.includes: sub occurs in s at some position
includes(s, sub) ==
    \E i \in 0..(Len(s) - Len(sub)) : SubSeq(s, i + 1, i + Len(sub)) = sub

(***************************************************************************)
(* parser.ts: the Eligibility Filter.                                      *)
(***************************************************************************)
testableLanguages == {S_typescript, S_ts, S_javascript, S_js}

\* a filter that forgets the opt-out
IsTestableNoOptOut(block) == toLowerCase(block.language) \in testableLanguages

\* the predicate given to blocks.filter; meta?.includes(...) of a block
\* without meta is undefined, which ! turns into true
IsTestable(block) ==
    /\ toLowerCase(block.language) \in testableLanguages
    /\ ~(block.meta # Undefined /\ includes(block.meta, S_nocheck))

filterTestableBlocks(blocks) == SelectSeq(blocks, IsTestable)

(***************************************************************************)
(* runner.ts: runBlock.  The code of a block is modelled by what it does   *)
(* when bundled and run:                                                   *)
(*   "ok"            bundles and runs to the end                           *)
(*   "bundleError"   esbuild's build() rejects (syntax, unresolved import) *)
(*   "throwError"    throw new Error("oops")                               *)
(*   "throwValue"    throw 42 (not an Error, String(42) is "42")           *)
(*   "throwNoString" throw Object.create(null) (not an Error, and String() *)
(*                   of it raises TypeError: no toString, no valueOf)      *)
(*   "timeout"       runs longer than the 5000 ms of runInContext          *)
(*   "setEnv"        process.env.SCRIBE_X = "1"                            *)
(*   "readEnv"       if (process.env.SCRIBE_X) throw new Error("leak")     *)
(*   "setTimer"      setTimeout(() => { throw new Error("late") }, 10)     *)
(*                                                                         *)
(* A message is the sequence of its lines, a line the sequence of its      *)
(* tokens: a blank, a location marker, or a piece of text free of blanks   *)
(* at its ends and of markers.                                             *)
(***************************************************************************)
Behaviours == {"ok", "bundleError", "throwError", "throwValue",
               "throwNoString", "timeout"}

\* the value undefined of a RunResult without error; it is no message: its
\* one line holds a token that is no text
NoError == <<<<"<undefined>">>>>

\* the empty string as a message: one line without tokens
EmptyMessage == <<<< >>>>

\* tokens matched by /file:\/\/[^\s]+\[eval\d*\]:\d+/
EvalMarkers == {"file:///runner.js[eval1]:3"}
\* tokens matched by /\[stdin\]:\d+/
StdinMarkers == {"[stdin]:3"}
\* tokens that include 'node:internal'
InternalMarkers == {"node:internal/vm:76"}
\* tokens that include 'file://' and are no eval location
FileMarkers == {"file:///runner.js:205"}
Blank == " "

\* process.env.SCRIBE_X
EnvName == "SCRIBE_X"

\* the value that reaches the catch clause of runBlock
Thrown(code) ==
    CASE code = "bundleError" ->
           [isError |-> TRUE, stringable |-> TRUE,
            text |-> << <<"Build failed with 1 error:">>,
                        <<"<stdin>:1:6:", Blank, "ERROR: Unexpected end of file">> >>]
      [] code = "throwError" ->
           [isError |-> TRUE, stringable |-> TRUE, text |-> << <<"oops">> >>]
      [] code = "timeout" ->
           [isError |-> TRUE, stringable |-> TRUE,
            text |-> << <<"Script execution timed out after 5000ms">> >>]
      [] code = "throwValue" ->
           [isError |-> FALSE, stringable |-> TRUE, text |-> << <<"42">> >>]
      [] code = "throwNoString" ->
           [isError |-> FALSE, stringable |-> FALSE, text |-> << >>]
      [] code = "readEnv" ->
           [isError |-> TRUE, stringable |-> TRUE, text |-> << <<"leak">> >>]

\* does the script of the block run to its end?
Completes(code, e) ==
    \/ code \in {"ok", "setEnv", "setTimer"}
    \/ code = "readEnv" /\ EnvName \notin e

\* process.env after the block ran: the sandbox is given the host's object
EnvAfter(code, e) == IF code = "setEnv" THEN e \cup {EnvName} ELSE e

\* the text the mock console captured when the block ran to its end
Captured(block) == <<"hello">>

\* does the catch clause itself complete?  err instanceof Error ? err.message
\* : String(err), and String(err) raises for a value with no string conversion
CatchCompletes(err) == err.isError \/ err.stringable

\* a catch clause that returns what the mock console captured
FailureOutputKept(block) == Captured(block)

\* output: '' of the catch clause
FailureOutput(block) == S_empty

\* runBlock(block) with e the names set in the host's process.env: how the
\* promise settles, and with which RunResult
RunBlockIn(block, e) ==
    IF Completes(block.code, e)
    THEN [settle |-> "resolved",
          value |-> {[block |-> block, success |-> TRUE,
                      output |-> Captured(block), error |-> NoError]}]
    ELSE LET err == Thrown(block.code) IN
         IF CatchCompletes(err)
         THEN [settle |-> "resolved",
               value |-> {[block |-> block, success |-> FALSE,
                           output |-> FailureOutput(block), error |-> err.text]}]
         ELSE [settle |-> "rejected", value |-> {}]

runBlock(block) == RunBlockIn(block, env)

\* runBlocks(blocks): the blocks run one after the other from position k on,
\* each in the process.env the earlier ones left
RECURSIVE RunBlocksFrom(_, _, _)
RunBlocksFrom(blocks, k, e) ==
    IF k > Len(blocks) THEN << >>
    ELSE <<RunBlockIn(blocks[k], e)>>
         \o RunBlocksFrom(blocks, k + 1, EnvAfter(blocks[k].code, e))

runBlocks(blocks) == RunBlocksFrom(blocks, 1, {})

(***************************************************************************)
(* cli: cleanErrorMessage.                                                 *)
(***************************************************************************)
\* the two replace calls: eval and stdin locations are cut out of the line
StripLocations(line) ==
    SelectSeq(line, LAMBDA t : t \notin EvalMarkers \cup StdinMarkers)

\* a filter that keeps every line
IsEngineLineNever(line) == FALSE

\* line.includes('node:internal') || line.includes('file://')
IsEngineLine(line) ==
    \E k \in 1..Len(line) : line[k] \in InternalMarkers \cup FileMarkers \cup EvalMarkers

\* String.prototype.trim
RECURSIVE trim(_)
trim(line) ==
    IF line = << >> THEN line
    ELSE IF Head(line) = Blank THEN trim(Tail(line))
    ELSE IF line[Len(line)] = Blank THEN trim(SubSeq(line, 1, Len(line) - 1))
    ELSE line

\* the line cleanErrorMessage returns, the empty line when none is left
cleanErrorMessage(error) ==
    LET stripped == [k \in 1..Len(error) |-> StripLocations(error[k])]
        kept == SelectSeq(stripped, LAMBDA l : ~IsEngineLine(l))
        trimmed == [k \in 1..Len(kept) |-> trim(kept[k])]
        filled == SelectSeq(trimmed, LAMBDA l : l # << >>)
    IN IF filled = << >> THEN << >> ELSE filled[1]

(***************************************************************************)
(* cli: run().  io.write and io.writeError receive lines; a line is a      *)
(* record of its kind and of the values interpolated into it.              *)
(***************************************************************************)
Line(kind, label, text, n, total) ==
    [kind |-> kind, label |-> label, text |-> text, n |-> n, total |-> total]

NoText == << >>

\* `${shortFile}:${block.line}`
Label(block) == <<block.file, block.line>>
NoLabel == <<"", 0>>

\* printCompleted(label, success, error): the lines it gives to io.write;
\* if (error) skips undefined and the empty string, here the empty line
printCompleted(label, success, error) ==
    IF success
    THEN <<Line("pass", label, NoText, 0, 0)>>
    ELSE <<Line("fail", label, NoText, 0, 0)>>
         \o (IF error # << >> THEN <<Line("error", label, error, 0, 0)>> ELSE << >>)

\* result.error ? cleanErrorMessage(result.error) : undefined, with the empty
\* line for undefined (printCompleted only tests it)
CleanError(result) ==
    IF result.error # NoError /\ result.error # EmptyMessage
    THEN cleanErrorMessage(result.error)
    ELSE << >>

IdleWorker == [pc |-> "idle", index |-> -1, value |-> {}]

\* a cursor that is read and not advanced
AdvanceCursorStuck(n) == n

\* a cursor that skips a position
AdvanceCursorByTwo(n) == n + 2

\* index = nextIndex++ : the value the cursor takes
AdvanceCursor(n) == n + 1

\* logUpdate(renderRunningTests(running)): the region drawn
renderRunningTests(running) == running

\* worker(): from the head of the while loop to the await of runBlock, on the
\* scheduler's variables st; blocks is allBlocks
WorkerLoop(st, w, blocks) ==
    IF st.nextIndex < Len(blocks)
    THEN LET index == st.nextIndex IN
         [st EXCEPT !.nextIndex = AdvanceCursor(index),
                    !.runningTests = @ \cup {index},
                    !.live = IF interactive
                             THEN renderRunningTests(st.runningTests \cup {index})
                             ELSE @,
                    !.execCount[index] = @ + 1,
                    !.workers[w] = [pc |-> "await", index |-> index, value |-> {}]]
    ELSE [st EXCEPT !.workers[w] = [pc |-> "done", index |-> -1, value |-> {}]]

\* one worker per unit of concurrency, whatever the number of blocks
WorkerCountAll(conc, len) == IF conc < 0 THEN 0 ELSE conc

\* a pool that always holds at least one worker
WorkerCountAtLeastOne(conc, len) ==
    LET m == IF conc < len THEN conc ELSE len IN IF m < 1 THEN 1 ELSE m

\* Array.from({ length: Math.min(concurrency, allBlocks.length) }, ...): the
\* number of worker() calls; a negative length gives the empty array
WorkerCount(conc, len) ==
    LET m == IF conc < len THEN conc ELSE len IN IF m < 0 THEN 0 ELSE m

\* the calls worker() of Array.from, one after the other; each runs up to its
\* first await before the next is made
RECURSIVE SpawnWorkers(_, _, _, _)
SpawnWorkers(st, w, n, blocks) ==
    IF w > n THEN st ELSE SpawnWorkers(WorkerLoop(st, w, blocks), w + 1, n, blocks)

\* every result written into the first slot
ResultSlotFirst(w) == 0

\* results[index] = result : the slot written by worker w
ResultSlot(w) == workers[w].index

\* a summary with passed and failed exchanged
SummaryLinesSwapped(p, f, total) ==
    <<Line("blank", NoLabel, NoText, 0, 0),
      Line("summary", NoLabel, IF f > 0 THEN <<"red">> ELSE <<"green">>, f, total)>>

\* a summary that is written twice
SummaryLinesTwice(p, f, total) ==
    <<Line("blank", NoLabel, NoText, 0, 0),
      Line("summary", NoLabel, IF f > 0 THEN <<"red">> ELSE <<"green">>, p, total),
      Line("summary", NoLabel, IF f > 0 THEN <<"red">> ELSE <<"green">>, p, total)>>

\* the last two io.write calls of run()
SummaryLines(p, f, total) ==
    <<Line("blank", NoLabel, NoText, 0, 0),
      Line("summary", NoLabel, IF f > 0 THEN <<"red">> ELSE <<"green">>, p, total)>>

(***************************************************************************)
(* cli.ts, lines 75-78: the mode of the reporter.  A host gives what the   *)
(* module reads when it is loaded: process.stdout.isTTY ({} for undefined) *)
(* and the environment variables CI and GITHUB_ACTIONS ({} for unset).     *)
(***************************************************************************)
Hosts ==
    [isTTY : {{}, {TRUE}}, CI : {{}, {"true"}, {"1"}}, GITHUB_ACTIONS : {{}, {"true"}}]

\* a terminal outside CI, and output that is piped
TerminalHost == [isTTY |-> {TRUE}, CI |-> {}, GITHUB_ACTIONS |-> {}]
PipedHost == [isTTY |-> {}, CI |-> {}, GITHUB_ACTIONS |-> {}]
RunHosts == {TerminalHost, PipedHost}

\* process.stdout.isTTY ?? false
isTTY(h) == h.isTTY # {}

\* process.env.CI === 'true' || process.env.GITHUB_ACTIONS === 'true'
isCI(h) == h.CI = {"true"} \/ h.GITHUB_ACTIONS = {"true"}

\* a mode chosen by the terminal alone
useInteractiveOutputAnyTty(h) == isTTY(h)

useInteractiveOutput(h) == isTTY(h) /\ ~isCI(h)

\* the injected setTimeout is the host's: a callback the block registers is
\* kept by the host's event loop
TimersAfter(code, index, t) ==
    IF code = "setTimer" THEN t \cup {<<index, "pending">>} ELSE t

(***************************************************************************)
(* The documents.  A fenced block takes at least two lines, so the k-th    *)
(* block of a document starts at line 2k-1 at the earliest.                *)
(***************************************************************************)
BlockKinds ==
    {[language |-> S_js, meta |-> S_empty, code |-> c] : c \in Behaviours}
    \cup {[language |-> S_js, meta |-> S_nocheck, code |-> "throwError"],
          [language |-> S_py, meta |-> S_empty, code |-> "ok"]}

MkBlock(kind, k) ==
    [language |-> kind.language, code |-> kind.code, file |-> "a.md",
     line |-> 2 * k - 1, meta |-> kind.meta]

Documents ==
    {[k \in 1..n |-> MkBlock(ks[k], k)] :
        n \in 0..MaxBlocks, ks \in [1..MaxBlocks -> BlockKinds]}

\* the documents of the runs that report to a terminal
TtyKinds ==
    {[language |-> S_js, meta |-> S_empty, code |-> c] :
        c \in {"ok", "throwError", "throwNoString"}}

TtyDocuments ==
    {[k \in 1..n |-> MkBlock(ks[k], k)] :
        n \in 0..MaxBlocks, ks \in [1..MaxBlocks -> TtyKinds]}

ConcurrencyValues == -1..MaxConc

NoFunction == [i \in {} |-> 0]

\* the state in which run() is called
RunStart ==
    /\ allBlocks = << >>
    /\ results = NoFunction
    /\ nextIndex = 0
    /\ runningTests = {}
    /\ passed = 0
    /\ failed = 0
    /\ workers = [w \in 1..MaxConc |-> IdleWorker]
    /\ stdout = << >>
    /\ stderr = << >>
    /\ runPc = "start"
    /\ runResult = {}
    /\ exitCode = {}
    /\ execCount = NoFunction
    /\ writeCount = NoFunction
    /\ spawned = 0
    /\ live = {}
    /\ timerOn = FALSE
    /\ spinnerIndex = 0
    /\ completed = << >>
    /\ env = {}
    /\ liveUsed = FALSE
    /\ timers = {}

InitRun ==
    /\ target \in {"missing", "file", "dir"}
    /\ concurrency \in ConcurrencyValues
    /\ host \in RunHosts
    /\ interactive = useInteractiveOutput(host)
    /\ rawBlocks \in (IF target = "missing" THEN {<< >>}
                      ELSE IF interactive THEN TtyDocuments ELSE Documents)
    /\ RunStart

RunsIdle == scopes = << >> /\ calls = << >>

FnIdle == fin = << >> /\ fout = << >> /\ fpc = "idle" /\ RunsIdle

Init == InitRun /\ FnIdle

\* a stat failure that is reported without returning
StatNoReturn ==
    /\ runPc = "start"
    /\ exitCode = {}
    /\ stderr' = IF target = "missing"
                 THEN Append(stderr, Line("pathNotFound", NoLabel, NoText, 0, 0))
                 ELSE stderr
    /\ runPc' = "scan"
    /\ UNCHANGED <<target, concurrency, rawBlocks, allBlocks, results, nextIndex,
                   runningTests, passed, failed, workers, stdout, exitCode,
                   execCount, writeCount, spawned, runResult, interactive, live, timerOn, spinnerIndex, completed, env>>
    /\ UNCHANGED <<host, liveUsed, timers>>
    /\ UNCHANGED auxVars

\* run(), lines 136-143: stat(targetPath), and the return when it fails
Stat ==
    /\ runPc = "start"
    /\ exitCode = {}
    /\ IF target = "missing"
       THEN /\ stderr' = Append(stderr, Line("pathNotFound", NoLabel, NoText, 0, 0))
            /\ runResult' = {[passed |-> 0, failed |-> 1]}
            /\ runPc' = "returned"
       ELSE /\ runPc' = "scan"
            /\ UNCHANGED <<stderr, runResult>>
    /\ UNCHANGED <<target, concurrency, rawBlocks, allBlocks, results, nextIndex,
                   runningTests, passed, failed, workers, stdout, exitCode,
                   execCount, writeCount, spawned, interactive, live, timerOn, spinnerIndex, completed, env>>
    /\ UNCHANGED <<host, liveUsed, timers>>
    /\ UNCHANGED auxVars

\* a run that never takes the early return
NoBlocksFoundNever(blocks) == FALSE

\* allBlocks.length === 0
NoBlocksFound(blocks) == Len(blocks) = 0

\* run(), lines 145-258: scan, extract, filter, and either return (no block)
\* or create results, set the spinner's timer and start the workers, up to
\* await Promise.all
Scan ==
    /\ runPc = "scan"
    /\ exitCode = {}
    /\ LET blocks == filterTestableBlocks(rawBlocks)
           M == Len(blocks)
           header == (IF target = "dir"
                      THEN <<Line("scanning", NoLabel, NoText, 0, 0)>> ELSE << >>)
                     \o <<Line("found", NoLabel, NoText, concurrency, 0)>>
       IN /\ allBlocks' = blocks
          /\ IF NoBlocksFound(blocks)
             THEN /\ stdout' = stdout \o header \o <<Line("none", NoLabel, NoText, 0, 0)>>
                  /\ runResult' = {[passed |-> 0, failed |-> 0]}
                  /\ runPc' = "returned"
                  /\ UNCHANGED <<results, nextIndex, runningTests, workers,
                                 execCount, writeCount, spawned, live, timerOn,
                                 liveUsed>>
             ELSE LET n == WorkerCount(concurrency, M)
                      st == SpawnWorkers(
                              [nextIndex |-> 0, runningTests |-> {},
                               workers |-> workers, live |-> live,
                               execCount |-> [i \in 0..(M - 1) |-> 0]],
                              1, n, blocks)
                  IN /\ stdout' = stdout \o header
                     /\ timerOn' = interactive
                     /\ liveUsed' = (liveUsed \/ interactive)
                     /\ live' = st.live
                     /\ results' = [i \in 0..(M - 1) |-> {}]
                     /\ writeCount' = [i \in 0..(M - 1) |-> 0]
                     /\ nextIndex' = st.nextIndex
                     /\ runningTests' = st.runningTests
                     /\ workers' = st.workers
                     /\ execCount' = st.execCount
                     /\ spawned' = n
                     /\ runPc' = "awaitAll"
                     /\ UNCHANGED runResult
    /\ UNCHANGED <<target, concurrency, rawBlocks, passed, failed, stderr, exitCode,
                   interactive, spinnerIndex, completed, env>>
    /\ UNCHANGED <<host, timers>>
    /\ UNCHANGED auxVars

\* runBlock(block) of worker w settles (runner.ts, lines 124-220)
RunBlockSettle(w) ==
    /\ exitCode = {}
    /\ workers[w].pc = "await"
    /\ LET block == allBlocks[workers[w].index + 1]
           out == runBlock(block)
       IN /\ workers' = [workers EXCEPT
                           ![w].pc = IF out.settle = "resolved" THEN "settled" ELSE "threw",
                           ![w].value = out.value]
          /\ env' = EnvAfter(block.code, env)
          /\ timers' = TimersAfter(block.code, workers[w].index, timers)
    /\ UNCHANGED <<target, concurrency, rawBlocks, allBlocks, results, nextIndex,
                   runningTests, passed, failed, stdout, stderr, runPc, runResult,
                   exitCode, execCount, writeCount, spawned, interactive, live,
                   timerOn, spinnerIndex, completed>>
    /\ UNCHANGED <<host, liveUsed>>
    /\ UNCHANGED auxVars

\* worker(), lines 237-251 and the next turn of the loop up to its await
WorkerResume(w) ==
    /\ exitCode = {}
    /\ workers[w].pc = "settled"
    /\ LET result == CHOOSE r \in workers[w].value : TRUE
           index == workers[w].index
           label == Label(allBlocks[index + 1])
           running == runningTests \ {index}
           st == WorkerLoop([nextIndex |-> nextIndex,
                             runningTests |-> running,
                             workers |-> workers, execCount |-> execCount,
                             live |-> IF interactive
                                      THEN renderRunningTests(running) ELSE live],
                            w, allBlocks)
       IN /\ results' = [results EXCEPT ![ResultSlot(w)] = {result}]
          /\ writeCount' = [writeCount EXCEPT ![ResultSlot(w)] = @ + 1]
          /\ passed' = IF result.success THEN passed + 1 ELSE passed
          /\ failed' = IF result.success THEN failed ELSE failed + 1
          /\ stdout' = stdout \o printCompleted(label, result.success, CleanError(result))
          /\ nextIndex' = st.nextIndex
          /\ runningTests' = st.runningTests
          /\ workers' = st.workers
          /\ execCount' = st.execCount
          /\ live' = st.live
          /\ completed' = Append(completed, index)
          /\ liveUsed' = (liveUsed \/ interactive)
    /\ UNCHANGED <<target, concurrency, rawBlocks, allBlocks, stderr, runPc,
                   runResult, exitCode, spawned, interactive, timerOn,
                   spinnerIndex, env>>
    /\ UNCHANGED <<host, timers>>
    /\ UNCHANGED auxVars

\* worker(), line 237: the awaited promise rejected, so the async function
\* worker() rejects at the await
WorkerReject(w) ==
    /\ exitCode = {}
    /\ workers[w].pc = "threw"
    /\ workers' = [workers EXCEPT ![w].pc = "rejected"]
    /\ UNCHANGED <<target, concurrency, rawBlocks, allBlocks, results, nextIndex,
                   runningTests, passed, failed, stdout, stderr, runPc, runResult,
                   exitCode, execCount, writeCount, spawned, interactive,
                   live, timerOn, spinnerIndex, completed, env>>
    /\ UNCHANGED <<host, liveUsed, timers>>
    /\ UNCHANGED auxVars

\* run(), lines 189-195: the callback of setInterval
Tick ==
    /\ exitCode = {}
    /\ timerOn
    /\ spinnerIndex < MaxTicks
    /\ spinnerIndex' = spinnerIndex + 1
    /\ live' = IF runningTests # {} THEN renderRunningTests(runningTests) ELSE live
    /\ liveUsed' = TRUE
    /\ UNCHANGED <<target, concurrency, rawBlocks, allBlocks, results, nextIndex,
                   runningTests, passed, failed, workers, stdout, stderr, runPc,
                   runResult, exitCode, execCount, writeCount, spawned,
                   interactive, timerOn, completed, env>>
    /\ UNCHANGED <<host, timers>>
    /\ UNCHANGED auxVars

\* a run that leaves its render tick timer set
ClearIntervalForgotten(on) == on

\* clearInterval(animationInterval), lines 260-262: is the timer still set?
ClearInterval(on) == FALSE

\* run(), lines 258-272: Promise.all resolved
RunFinish ==
    /\ exitCode = {}
    /\ runPc = "awaitAll"
    /\ \A w \in 1..spawned : workers[w].pc = "done"
    /\ stdout' = stdout \o SummaryLines(passed, failed, Len(allBlocks))
    /\ runResult' = {[passed |-> passed, failed |-> failed]}
    /\ runPc' = "returned"
    /\ timerOn' = ClearInterval(timerOn)
    /\ live' = IF interactive THEN {} ELSE live
    /\ liveUsed' = (liveUsed \/ interactive)
    /\ UNCHANGED <<target, concurrency, rawBlocks, allBlocks, results, nextIndex,
                   runningTests, passed, failed, workers, stderr, exitCode,
                   execCount, writeCount, spawned, interactive, spinnerIndex,
                   completed, env>>
    /\ UNCHANGED <<host, timers>>
    /\ UNCHANGED auxVars

\* run(), line 258: Promise.all rejects as soon as one worker() has rejected,
\* and so does run(); the other workers go on
RunReject ==
    /\ exitCode = {}
    /\ runPc = "awaitAll"
    /\ \E w \in 1..spawned : workers[w].pc = "rejected"
    /\ runPc' = "rejected"
    /\ UNCHANGED <<target, concurrency, rawBlocks, allBlocks, results, nextIndex,
                   runningTests, passed, failed, workers, stdout, stderr, runResult,
                   exitCode, execCount, writeCount, spawned, interactive,
                   live, timerOn, spinnerIndex, completed, env>>
    /\ UNCHANGED <<host, liveUsed, timers>>
    /\ UNCHANGED auxVars

\* a main that exits with 1 only when run() rejects
ExitStatusIgnoresFailed(pc, result) == IF pc = "rejected" THEN 1 ELSE 0

\* main(), lines 294-298 and 304-307: the exit code once run() has settled
ExitStatus(pc, result) ==
    IF pc = "rejected" THEN 1
    ELSE IF \E r \in result : r.failed > 0 THEN 1 ELSE 0

MainExit ==
    /\ exitCode = {}
    /\ runPc \in {"returned", "rejected"}
    /\ exitCode' = {ExitStatus(runPc, runResult)}
    /\ UNCHANGED <<target, concurrency, rawBlocks, allBlocks, results, nextIndex,
                   runningTests, passed, failed, workers, stdout, stderr, runPc,
                   runResult, execCount, writeCount, spawned, interactive,
                   live, timerOn, spinnerIndex, completed, env>>
    /\ UNCHANGED <<host, liveUsed, timers>>
    /\ UNCHANGED auxVars

Next ==
    \/ Stat
    \/ Scan
    \/ \E w \in 1..MaxConc : RunBlockSettle(w)
    \/ \E w \in 1..MaxConc : WorkerResume(w)
    \/ \E w \in 1..MaxConc : WorkerReject(w)
    \/ Tick
    \/ RunFinish
    \/ RunReject
    \/ MainExit

Spec == Init /\ [][Next]_vars

(***************************************************************************)
(* run() on every sampled host: terminal or not, CI and GITHUB_ACTIONS     *)
(* unset, 'true' or another value.                                         *)
(***************************************************************************)
InitMode ==
    /\ target \in {"missing", "file", "dir"}
    /\ concurrency \in ConcurrencyValues
    /\ host \in Hosts
    /\ interactive = useInteractiveOutput(host)
    /\ rawBlocks \in (IF target = "missing" THEN {<< >>} ELSE TtyDocuments)
    /\ RunStart
    /\ FnIdle

SpecMode == InitMode /\ [][Next]_vars

(***************************************************************************)
(* The run under the scheduling of the event loop: a continuation that is  *)
(* ready is run, a runBlock call that is awaited settles, and main() goes  *)
(* on once run() has settled.  The render tick has no fairness: the timer  *)
(* may fire or not between two continuations.                              *)
(***************************************************************************)
\* blocks whose runBlock call returns a result and blocks whose call rejects
LiveKinds ==
    {[language |-> S_js, meta |-> S_empty, code |-> c] : c \in {"throwError", "throwNoString"}}

LiveDocuments ==
    {[k \in 1..n |-> MkBlock(ks[k], k)] :
        n \in 0..MaxBlocks, ks \in [1..MaxBlocks -> LiveKinds]}

InitLive ==
    /\ target \in {"missing", "file"}
    /\ concurrency \in ConcurrencyValues
    /\ host \in RunHosts
    /\ interactive = useInteractiveOutput(host)
    /\ rawBlocks \in (IF target = "missing" THEN {<< >>} ELSE LiveDocuments)
    /\ RunStart
    /\ FnIdle

\* a step of the run other than the render tick
Progress ==
    \/ Stat
    \/ Scan
    \/ \E w \in 1..MaxConc : RunBlockSettle(w)
    \/ \E w \in 1..MaxConc : WorkerResume(w)
    \/ \E w \in 1..MaxConc : WorkerReject(w)
    \/ RunFinish
    \/ RunReject
    \/ MainExit

\* the event loop does not stop while such a step is possible
Fairness == WF_vars(Progress)

SpecLive == InitLive /\ [][Next]_vars /\ Fairness

(***************************************************************************)
(* run() over blocks that use the injected timers (runner.ts, lines        *)
(* 159-162: setTimeout, setInterval, clearTimeout and clearInterval of the *)
(* sandbox are the host's).  A block "setTimer" is                         *)
(*     setTimeout(() => { throw new Error('late') }, 10)                   *)
(* it runs to its end; the callback stays with the host's event loop.      *)
(***************************************************************************)
TimerKinds ==
    {[language |-> S_js, meta |-> S_empty, code |-> c] :
        c \in {"ok", "setTimer", "throwError"}}

TimerDocuments ==
    {[k \in 1..n |-> MkBlock(ks[k], k)] :
        n \in 0..MaxBlocks, ks \in [1..MaxBlocks -> TimerKinds]}

InitTimers ==
    /\ target \in {"missing", "file", "dir"}
    /\ concurrency \in ConcurrencyValues
    /\ host \in RunHosts
    /\ interactive = useInteractiveOutput(host)
    /\ rawBlocks \in (IF target = "missing" THEN {<< >>} ELSE TimerDocuments)
    /\ RunStart
    /\ FnIdle

Pending == {t \in timers : t[2] = "pending"}

\* the host's event loop calls a callback a block registered, which it does
\* after the continuation of the block's own await; the callback raises, no
\* handler of the host catches it, and the process ends with 1
TimerFire(i) ==
    /\ exitCode = {}
    /\ <<i, "pending">> \in timers
    /\ results[i] # {}
    /\ timers' = (timers \ {<<i, "pending">>}) \cup {<<i, "ran">>}
    /\ exitCode' = {1}
    /\ UNCHANGED <<target, concurrency, rawBlocks, allBlocks, results, nextIndex,
                   runningTests, passed, failed, workers, stdout, stderr, runPc,
                   runResult, execCount, writeCount, spawned, interactive,
                   live, timerOn, spinnerIndex, completed, env, host, liveUsed>>
    /\ UNCHANGED auxVars

\* main() has settled: process.exit(1), or the process ends by itself once
\* the event loop holds no timer
TimersMainExit ==
    /\ ExitStatus(runPc, runResult) = 0 => Pending = {}
    /\ MainExit

NextTimers ==
    \/ Stat
    \/ Scan
    \/ \E w \in 1..MaxConc : RunBlockSettle(w)
    \/ \E w \in 1..MaxConc : WorkerResume(w)
    \/ Tick
    \/ RunFinish
    \/ \E i \in 0..(MaxBlocks - 1) : TimerFire(i)
    \/ TimersMainExit

SpecTimers == InitTimers /\ [][NextTimers]_vars

(***************************************************************************)
(* filterTestableBlocks applied on its own to a bounded list of blocks.    *)
(***************************************************************************)
FilterLanguages == {S_ts, S_TS, S_js, S_Js, S_jsx, S_typescript, S_javascript, S_text}
FilterMetas == {S_empty, S_nocheck, S_scribe_nocheck, S_nocheck_scribe,
                S_nochecksum, S_donocheck, S_scribe, Undefined}
FilterKinds ==
    {[language |-> l, meta |-> m, code |-> "ok"] : l \in FilterLanguages, m \in FilterMetas}

FilterInputs ==
    {[k \in 1..n |-> MkBlock(ks[k], k)] :
        n \in 0..MaxFilterLen, ks \in [1..MaxFilterLen -> FilterKinds]}

RunIdle ==
    /\ target = "missing"
    /\ concurrency = 1
    /\ rawBlocks = << >>
    /\ allBlocks = << >>
    /\ results = NoFunction
    /\ nextIndex = 0
    /\ runningTests = {}
    /\ passed = 0
    /\ failed = 0
    /\ workers = [w \in 1..MaxConc |-> IdleWorker]
    /\ stdout = << >>
    /\ stderr = << >>
    /\ runPc = "off"
    /\ interactive = FALSE
    /\ runResult = {}
    /\ exitCode = {}
    /\ execCount = NoFunction
    /\ writeCount = NoFunction
    /\ spawned = 0
    /\ live = {}
    /\ timerOn = FALSE
    /\ spinnerIndex = 0
    /\ completed = << >>
    /\ env = {}
    /\ liveUsed = FALSE
    /\ timers = {}
    /\ host = PipedHost

InitFilter ==
    /\ RunIdle
    /\ RunsIdle
    /\ fin \in FilterInputs
    /\ fout = << >>
    /\ fpc = "in"

ApplyFilter ==
    /\ fpc = "in"
    /\ fout' = filterTestableBlocks(fin)
    /\ fpc' = "out"
    /\ UNCHANGED fin
    /\ UNCHANGED runVars
    /\ UNCHANGED runsVars

NextFilter == ApplyFilter

SpecFilter == InitFilter /\ [][NextFilter]_vars

(***************************************************************************)
(* run() over documents whose blocks write and read process.env.           *)
(***************************************************************************)
EnvKinds ==
    {[language |-> S_js, meta |-> S_empty, code |-> c] :
        c \in {"ok", "setEnv", "readEnv", "throwNoString"}}

EnvDocuments ==
    {[k \in 1..n |-> MkBlock(ks[k], k)] :
        n \in 0..MaxBlocks, ks \in [1..MaxBlocks -> EnvKinds]}

InitEnv ==
    /\ target \in {"missing", "file", "dir"}
    /\ concurrency \in ConcurrencyValues
    /\ host \in RunHosts
    /\ interactive = useInteractiveOutput(host)
    /\ rawBlocks \in (IF target = "missing" THEN {<< >>} ELSE EnvDocuments)
    /\ RunStart
    /\ FnIdle

SpecEnv == InitEnv /\ [][Next]_vars

(***************************************************************************)
(* run() with the two halves of runBlock told apart: the bundling, which   *)
(* is awaited, and script.runInContext, which is a synchronous call: while *)
(* a script runs, the one JavaScript thread runs nothing else.             *)
(***************************************************************************)
\* no script is inside script.runInContext
ThreadFree == \A w \in 1..MaxConc : workers[w].pc # "executing"

\* runBlock, lines 129-205: build() has settled; its rejection goes to the
\* catch clause, otherwise the sandbox is made and the script entered
BuildSettle(w) ==
    /\ exitCode = {}
    /\ ThreadFree
    /\ workers[w].pc = "await"
    /\ LET block == allBlocks[workers[w].index + 1]
       IN workers' = [workers EXCEPT
                        ![w].pc = IF block.code = "bundleError" THEN "settled"
                                  ELSE "executing",
                        ![w].value = IF block.code = "bundleError"
                                     THEN runBlock(block).value ELSE {}]
    /\ UNCHANGED <<target, concurrency, rawBlocks, allBlocks, results, nextIndex,
                   runningTests, passed, failed, stdout, stderr, runPc, runResult,
                   exitCode, execCount, writeCount, spawned, interactive, live,
                   timerOn, spinnerIndex, completed, env>>
    /\ UNCHANGED <<host, liveUsed, timers>>
    /\ UNCHANGED auxVars

\* runBlock, lines 204-219: script.runInContext returns, throws, or is
\* stopped by its timeout, and the promise settles
ExecEnd(w) ==
    /\ exitCode = {}
    /\ workers[w].pc = "executing"
    /\ LET block == allBlocks[workers[w].index + 1]
           out == runBlock(block)
       IN /\ workers' = [workers EXCEPT
                           ![w].pc = IF out.settle = "resolved" THEN "settled" ELSE "threw",
                           ![w].value = out.value]
          /\ env' = EnvAfter(block.code, env)
          /\ timers' = TimersAfter(block.code, workers[w].index, timers)
    /\ UNCHANGED <<target, concurrency, rawBlocks, allBlocks, results, nextIndex,
                   runningTests, passed, failed, stdout, stderr, runPc, runResult,
                   exitCode, execCount, writeCount, spawned, interactive, live,
                   timerOn, spinnerIndex, completed>>
    /\ UNCHANGED <<host, liveUsed>>
    /\ UNCHANGED auxVars

ExecKinds ==
    {[language |-> S_js, meta |-> S_empty, code |-> c] :
        c \in {"ok", "timeout", "bundleError", "throwNoString"}}

ExecDocuments ==
    {[k \in 1..n |-> MkBlock(ks[k], k)] :
        n \in 0..MaxBlocks, ks \in [1..MaxBlocks -> ExecKinds]}

InitExec ==
    /\ target \in {"missing", "file", "dir"}
    /\ concurrency \in ConcurrencyValues
    /\ host \in RunHosts
    /\ interactive = useInteractiveOutput(host)
    /\ rawBlocks \in (IF target = "missing" THEN {<< >>} ELSE ExecDocuments)
    /\ RunStart
    /\ FnIdle

NextExec ==
    \/ ThreadFree /\ Stat
    \/ ThreadFree /\ Scan
    \/ \E w \in 1..MaxConc : BuildSettle(w)
    \/ \E w \in 1..MaxConc : ExecEnd(w)
    \/ \E w \in 1..MaxConc : ThreadFree /\ WorkerResume(w)
    \/ \E w \in 1..MaxConc : ThreadFree /\ WorkerReject(w)
    \/ ThreadFree /\ Tick
    \/ ThreadFree /\ RunFinish
    \/ ThreadFree /\ RunReject
    \/ ThreadFree /\ MainExit

SpecExec == InitExec /\ [][NextExec]_vars

(***************************************************************************)
(* Two run() calls in one process, from the point where each has found its *)
(* blocks (cli, lines 181-272).  runningTests, passed, failed and nextIndex *)
(* are declared inside run(): the closures of a call address the variables *)
(* of the scope that call created.                                         *)
(***************************************************************************)
Runs == {1, 2}

\* variables declared once for the module, shared by every call
ScopeOfModule(r) == 1

\* the scope the closures of call r address: the one of the call
ScopeOf(r) == r

NewScope == [nextIndex |-> 0, runningTests |-> {}, passed |-> 0, failed |-> 0]

RunsKinds ==
    {[language |-> S_js, meta |-> S_empty, code |-> c] : c \in {"ok", "throwError"}}

RunsDocuments ==
    {[k \in 1..n |-> MkBlock(ks[k], k)] :
        n \in 1..MaxRunBlocks, ks \in [1..MaxRunBlocks -> RunsKinds]}

InitRuns ==
    /\ RunIdle
    /\ fin = << >> /\ fout = << >> /\ fpc = "idle"
    /\ scopes = [s \in Runs |-> NewScope]
    /\ calls \in [Runs -> {[blocks |-> d, concurrency |-> c, pc |-> "start",
                             workers |-> [w \in 1..MaxRunBlocks |-> IdleWorker],
                             results |-> NoFunction, execCount |-> NoFunction,
                             spawned |-> 0, result |-> {}] :
                              d \in RunsDocuments, c \in 1..MaxRunBlocks}]

\* the scheduler's variables of call r, as worker() sees them
SchedulerOf(r) ==
    [nextIndex |-> scopes[ScopeOf(r)].nextIndex,
     runningTests |-> scopes[ScopeOf(r)].runningTests,
     workers |-> calls[r].workers,
     execCount |-> calls[r].execCount,
     live |-> {}]

\* run(), lines 181-258: the declarations, and the workers started
RunsBegin(r) ==
    /\ calls[r].pc = "start"
    /\ LET blocks == calls[r].blocks
           M == Len(blocks)
           n == WorkerCount(calls[r].concurrency, M)
           st == SpawnWorkers([SchedulerOf(r) EXCEPT
                                  !.nextIndex = 0, !.runningTests = {},
                                  !.execCount = [i \in 0..(M - 1) |-> 0]],
                              1, n, blocks)
       IN /\ scopes' = [scopes EXCEPT ![ScopeOf(r)] =
                           [nextIndex |-> st.nextIndex,
                            runningTests |-> st.runningTests,
                            passed |-> 0, failed |-> 0]]
          /\ calls' = [calls EXCEPT ![r].workers = st.workers,
                                    ![r].execCount = st.execCount,
                                    ![r].results = [i \in 0..(M - 1) |-> {}],
                                    ![r].spawned = n,
                                    ![r].pc = "awaitAll"]
    /\ UNCHANGED runVars
    /\ UNCHANGED fnVars

\* runBlock(block) of worker w of call r settles
RunsSettle(r, w) ==
    /\ calls[r].workers[w].pc = "await"
    /\ LET out == runBlock(calls[r].blocks[calls[r].workers[w].index + 1])
       IN calls' = [calls EXCEPT
                      ![r].workers[w].pc =
                          IF out.settle = "resolved" THEN "settled" ELSE "threw",
                      ![r].workers[w].value = out.value]
    /\ UNCHANGED scopes
    /\ UNCHANGED runVars
    /\ UNCHANGED fnVars

\* worker() of call r, lines 237-251 and the next turn of its loop
RunsResume(r, w) ==
    /\ calls[r].workers[w].pc = "settled"
    /\ LET result == CHOOSE x \in calls[r].workers[w].value : TRUE
           index == calls[r].workers[w].index
           sc == scopes[ScopeOf(r)]
           st == WorkerLoop([SchedulerOf(r) EXCEPT
                                !.runningTests = @ \ {index}],
                            w, calls[r].blocks)
       IN /\ scopes' = [scopes EXCEPT ![ScopeOf(r)] =
                           [nextIndex |-> st.nextIndex,
                            runningTests |-> st.runningTests,
                            passed |-> IF result.success THEN sc.passed + 1
                                       ELSE sc.passed,
                            failed |-> IF result.success THEN sc.failed
                                       ELSE sc.failed + 1]]
          /\ calls' = [calls EXCEPT ![r].results[index] = {result},
                                    ![r].workers = st.workers,
                                    ![r].execCount = st.execCount]
    /\ UNCHANGED runVars
    /\ UNCHANGED fnVars

\* run() of call r, lines 258-272: Promise.all resolved
RunsFinish(r) ==
    /\ calls[r].pc = "awaitAll"
    /\ \A w \in 1..calls[r].spawned : calls[r].workers[w].pc = "done"
    /\ calls' = [calls EXCEPT
                   ![r].result = {[passed |-> scopes[ScopeOf(r)].passed,
                                   failed |-> scopes[ScopeOf(r)].failed]},
                   ![r].pc = "returned"]
    /\ UNCHANGED scopes
    /\ UNCHANGED runVars
    /\ UNCHANGED fnVars

NextRuns ==
    \/ \E r \in Runs : RunsBegin(r)
    \/ \E r \in Runs : \E w \in 1..MaxRunBlocks : RunsSettle(r, w)
    \/ \E r \in Runs : \E w \in 1..MaxRunBlocks : RunsResume(r, w)
    \/ \E r \in Runs : RunsFinish(r)

SpecRuns == InitRuns /\ [][NextRuns]_vars

(***************************************************************************)
(* The reporter applied on its own to one RunResult: what worker() writes  *)
(* once runBlock has resolved (cli, lines 242-250).                        *)
(***************************************************************************)
ErrorLineSamples ==
    { <<"oops">>,
      << >>,
      <<Blank>>,
      <<Blank, "Error: boom", Blank>>,
      <<Blank, "at", Blank, "node:internal/vm:76">>,
      <<"at", Blank, "file:///runner.js:205">>,
      <<"file:///runner.js[eval1]:3">>,
      <<"file:///runner.js[eval1]:3", Blank, "boom">>,
      <<"[stdin]:3", Blank, "SyntaxError">> }

ErrorSamples ==
    UNION {[1..n -> ErrorLineSamples] : n \in 1..MaxErrLines}

ReportInputs ==
    LET block == MkBlock([language |-> S_js, meta |-> S_empty, code |-> "ok"], 1)
    IN {[block |-> block, success |-> TRUE, output |-> Captured(block), error |-> NoError]}
       \cup {[block |-> block, success |-> FALSE, output |-> S_empty, error |-> e] :
                e \in ErrorSamples}

InitReport ==
    /\ RunIdle
    /\ RunsIdle
    /\ fin \in ReportInputs
    /\ fout = << >>
    /\ fpc = "in"

ApplyReport ==
    /\ fpc = "in"
    /\ fout' = printCompleted(Label(fin.block), fin.success, CleanError(fin))
    /\ fpc' = "out"
    /\ UNCHANGED fin
    /\ UNCHANGED runVars
    /\ UNCHANGED runsVars

NextReport == ApplyReport

SpecReport == InitReport /\ [][NextReport]_vars

(***************************************************************************)
(* cli: main(), the concurrency it gives to run(), applied on its own to   *)
(* the parsed options and the number of CPUs.                              *)
(***************************************************************************)
Digits == <<"0", "1", "2", "3", "4", "5", "6", "7", "8", "9">>

IsDigit(c) == \E i \in 1..Len(Digits) : Digits[i] = c

DigitValue(c) == (CHOOSE i \in 1..Len(Digits) : Digits[i] = c) - 1

\* String(n) of a number of one digit
String(n) == <<Digits[n + 1]>>

\* the white space parseInt skips
WhiteSpace == {" ", "\t", "\n"}

RECURSIVE SkipSpace(_)
SkipSpace(s) ==
    IF s # << >> /\ Head(s) \in WhiteSpace THEN SkipSpace(Tail(s)) ELSE s

\* the value of the longest prefix of digits of s, after acc
RECURSIVE ParseDigits(_, _)
ParseDigits(s, acc) ==
    IF s = << >> \/ ~IsDigit(Head(s)) THEN acc
    ELSE ParseDigits(Tail(s), 10 * acc + DigitValue(Head(s)))

\* parseInt(s, 10): {} for NaN, {n} for the number n
parseInt(s) ==
    LET t == SkipSpace(s)
        signed == t # << >> /\ Head(t) \in {"-", "+"}
        u == IF signed THEN Tail(t) ELSE t
    IN IF u = << >> \/ ~IsDigit(Head(u)) THEN {}
       ELSE {IF signed /\ Head(t) = "-" THEN 0 - ParseDigits(u, 0)
             ELSE ParseDigits(u, 0)}

\* main(), lines 288-291
Concurrency(opts, ncpus) ==
    LET parsed == parseInt(opts.parallel)
        c == IF parsed = {} \/ parsed = {0} THEN ncpus
             ELSE CHOOSE n \in parsed : TRUE
    IN IF opts.runInBand THEN 1 ELSE c

\* values given to --parallel
ParallelSamples ==
    {<<"1">>, <<"2">>, <<"4">>, <<"1", "2">>, <<"0">>, <<"-", "1">>, <<"-", "2">>,
     <<"a", "b", "c">>, <<"2", "x">>, <<" ", "3">>}

\* program.opts() and cpus().length: --parallel defaults to String(cpus().length)
MainInputs ==
    {[parallel |-> p, given |-> TRUE, runInBand |-> b, cpus |-> n] :
        p \in ParallelSamples, b \in BOOLEAN, n \in 1..MaxCpus}
    \cup {[parallel |-> String(n), given |-> FALSE, runInBand |-> b, cpus |-> n] :
              b \in BOOLEAN, n \in 1..MaxCpus}

InitMain ==
    /\ RunIdle
    /\ RunsIdle
    /\ fin \in MainInputs
    /\ fout = << >>
    /\ fpc = "in"

ApplyMain ==
    /\ fpc = "in"
    /\ fout' = Concurrency(fin, fin.cpus)
    /\ fpc' = "out"
    /\ UNCHANGED fin
    /\ UNCHANGED runVars
    /\ UNCHANGED runsVars

NextMain == ApplyMain

SpecMain == InitMain /\ [][NextMain]_vars

(***************************************************************************)
(* runner.ts, lines 222-228: runBlocks(blocks) as it executes.  fin is the *)
(* list it was given; fout holds results (the array being built), calls    *)
(* (the positions runBlock was called with, in the order of the calls) and *)
(* env (the names set in process.env); fpc is the position of the async    *)
(* function: "loop" at the head of for..of, "await" at await runBlock,     *)
(* "out" resolved with results, "rejected".                                *)
(***************************************************************************)
SeqKinds ==
    {[language |-> S_js, meta |-> S_empty, code |-> c] :
        c \in Behaviours \cup {"setEnv", "readEnv"}}

SeqDocuments ==
    {[k \in 1..n |-> MkBlock(ks[k], k)] :
        n \in 0..MaxBlocks, ks \in [1..MaxBlocks -> SeqKinds]}

InitBlocks ==
    /\ RunIdle
    /\ RunsIdle
    /\ fin \in SeqDocuments
    /\ fout = [results |-> << >>, calls |-> << >>, env |-> {}]
    /\ fpc = "loop"

\* for (const block of blocks): the next block is passed to runBlock, which
\* runs up to its first await
BlocksCall ==
    /\ fpc = "loop"
    /\ Len(fout.results) < Len(fin)
    /\ fout' = [fout EXCEPT !.calls = Append(@, Len(fout.results) + 1)]
    /\ fpc' = "await"
    /\ UNCHANGED fin
    /\ UNCHANGED runVars
    /\ UNCHANGED runsVars

\* await runBlock(block) settles: results.push(...) and the next turn, or
\* the rejection leaves the loop and rejects runBlocks
BlocksSettle ==
    /\ fpc = "await"
    /\ LET block == fin[Len(fout.results) + 1]
           out == RunBlockIn(block, fout.env)
       IN IF out.settle = "resolved"
          THEN /\ fout' = [fout EXCEPT
                             !.results = Append(@, CHOOSE r \in out.value : TRUE),
                             !.env = EnvAfter(block.code, @)]
               /\ fpc' = "loop"
          ELSE /\ fpc' = "rejected"
               /\ UNCHANGED fout
    /\ UNCHANGED fin
    /\ UNCHANGED runVars
    /\ UNCHANGED runsVars

\* return results
BlocksReturn ==
    /\ fpc = "loop"
    /\ Len(fout.results) = Len(fin)
    /\ fpc' = "out"
    /\ UNCHANGED <<fin, fout>>
    /\ UNCHANGED runVars
    /\ UNCHANGED runsVars

NextBlocks ==
    \/ BlocksCall
    \/ BlocksSettle
    \/ BlocksReturn

SpecBlocks == InitBlocks /\ [][NextBlocks]_vars

(***************************************************************************)
(* cli.ts: the scanner.  A name is a string; a path is the sequence of the *)
(* names that join() puts together.  A file system below the target is     *)
(* given by files, the paths of its regular files, and special, the paths  *)
(* of entries that are neither file nor directory; a path is a directory   *)
(* when an entry lies below it.                                            *)
(***************************************************************************)
S_node_modules == <<"n", "o", "d", "e", "_", "m", "o", "d", "u", "l", "e", "s">>
S_dot_md == <<".", "m", "d">>
S_dot_mdx == <<".", "m", "d", "x">>

\* String.prototype.startsWith
startsWith(s, prefix) ==
    Len(s) >= Len(prefix) /\ SubSeq(s, 1, Len(prefix)) = prefix

\* path.extname of a name without separator: from the last '.' to the end,
\* '' when there is no '.' or the only one is the first character
extname(name) ==
    LET dots == {p \in 1..Len(name) : name[p] = "."}
        last == CHOOSE p \in dots : \A q \in dots : q <= p
    IN IF dots = {} \/ last = 1 THEN S_empty ELSE SubSeq(name, last, Len(name))

\* the names readdir() can yield in the sampled trees, in the order in which
\* it yields them
EntryNames ==
    <<<<".", "g", "i", "t">>, <<".", "h", ".", "m", "d">>, S_dot_md,
      <<"R", ".", "M", "D">>, <<"a", ".", "m", "d">>, <<"b", ".", "m", "d", "x">>,
      <<"c", ".", "t", "x", "t">>, <<"d", "o", "c", "s">>, <<"n", ".", "m", "d">>,
      S_node_modules, <<"s", ".", "m", "d">>, <<"s", "u", "b">> >>

IsBelow(path, dir) == Len(path) > Len(dir) /\ SubSeq(path, 1, Len(dir)) = dir

\* readdir(currentDir), as a set
readdir(fs, dir) ==
    {path[Len(dir) + 1] : path \in {q \in fs.files \cup fs.special : IsBelow(q, dir)}}

\* (await stat(p)).isDirectory() and .isFile()
isDirectory(fs, p) == \E q \in fs.files \cup fs.special : IsBelow(q, p)
isFile(fs, p) == p \in fs.files

\* a scanner that walks into every directory
IsWalkedAny(entry) == TRUE

\* line 103: the condition on the name of a directory
IsWalked(entry) == ~startsWith(entry, <<".">>) /\ entry # S_node_modules

\* walk(currentDir) from the k-th name of readdir on: the paths pushed to
\* files, in the order of the pushes
RECURSIVE walk(_, _, _)
walk(fs, currentDir, k) ==
    IF k > Len(EntryNames) THEN << >>
    ELSE LET entry == EntryNames[k]
             fullPath == Append(currentDir, entry)
         IN (IF entry \notin readdir(fs, currentDir) THEN << >>
             ELSE IF isDirectory(fs, fullPath) /\ IsWalked(entry)
                  THEN walk(fs, fullPath, 1)
             ELSE IF isFile(fs, fullPath) /\ extname(entry) \in {S_dot_md, S_dot_mdx}
                  THEN <<fullPath>>
             ELSE << >>)
            \o walk(fs, currentDir, k + 1)

findMarkdownFiles(fs, dir) == walk(fs, dir, 1)

\* run(), lines 145-155: mdFiles
MdFiles(in) ==
    IF in.isFile THEN <<in.targetPath>>
    ELSE findMarkdownFiles(in.fs, in.targetPath)

\* the sampled regular files, relative to the target directory
ScanPaths ==
    LET n(k) == EntryNames[k]
    IN {<<n(5)>>, <<n(7)>>, <<n(2)>>, <<n(3)>>, <<n(4)>>,
        <<n(8), n(6)>>, <<n(8), n(7)>>, <<n(8), n(12), n(5)>>,
        <<n(1), n(5)>>, <<n(8), n(1), n(5)>>,
        <<n(10), n(8), n(5)>>, <<n(8), n(10), n(5)>>,
        <<n(9), n(5)>>}

\* the target directories: one with a plain name, one with a hidden name
ScanRoots == {<<EntryNames[8]>>, <<EntryNames[1]>>}

ScanInputs ==
    LET Trees == {[files |-> {r \o p : p \in ps},
                   special |-> IF s THEN {r \o <<EntryNames[11]>>} ELSE {},
                   root |-> r] :
                     ps \in {x \in SUBSET ScanPaths : Cardinality(x) <= MaxFiles},
                     s \in BOOLEAN, r \in ScanRoots}
    IN {[isFile |-> FALSE, targetPath |-> t.root, fs |-> t] : t \in Trees}
       \cup UNION {{[isFile |-> TRUE, targetPath |-> f, fs |-> t] : f \in t.files} :
                      t \in Trees}

InitScan ==
    /\ RunIdle
    /\ RunsIdle
    /\ fin \in ScanInputs
    /\ fout = << >>
    /\ fpc = "in"

ApplyScan ==
    /\ fpc = "in"
    /\ fout' = MdFiles(fin)
    /\ fpc' = "out"
    /\ UNCHANGED fin
    /\ UNCHANGED runVars
    /\ UNCHANGED runsVars

NextScan == ApplyScan

SpecScan == InitScan /\ [][NextScan]_vars

(***************************************************************************)
(* runner.ts, lines 173-179: the require given to the sandbox.  fout is    *)
(* the list of the calls a block made, each with what the call did.        *)
(***************************************************************************)
S_node_ == <<"n", "o", "d", "e", ":">>

\* ['assert', 'path', 'fs', 'util']
RequireList ==
    {<<"a", "s", "s", "e", "r", "t">>, <<"p", "a", "t", "h">>, <<"f", "s">>,
     <<"u", "t", "i", "l">>}

\* built-in modules of the host besides those of RequireList
OtherBuiltins ==
    {<<"c", "h", "i", "l", "d", "_", "p", "r", "o", "c", "e", "s", "s">>, <<"o", "s">>}

\* the ids the sampled blocks pass to require
RequireIds ==
    RequireList \cup OtherBuiltins
    \cup {S_node_ \o m : m \in {<<"f", "s">>, <<"o", "s">>, <<"n", "o", "p", "e">>}}
    \cup {S_node_ \o <<"c", "h", "i", "l", "d", "_", "p", "r", "o", "c", "e", "s", "s">>,
          <<"l", "o", "d", "a", "s", "h">>, <<".", "/", "x">>, <<"n", "o", "d", "e", "f", "s">>}

\* the host's require(id): the module is looked up, and loaded when it is a
\* built-in (with or without the node: scheme); otherwise the loader raises
HostRequire(id) ==
    LET name == IF startsWith(id, S_node_) THEN SubSeq(id, Len(S_node_) + 1, Len(id))
                ELSE id
    IN [id |-> id, lookup |-> TRUE,
        loaded |-> name \in RequireList \cup OtherBuiltins]

\* line 175: the condition of the gate
IsAllowed(id) == startsWith(id, S_node_) \/ id \in RequireList

\* require: (id) => ...
require(id) ==
    IF IsAllowed(id) THEN HostRequire(id)
    ELSE [id |-> id, lookup |-> FALSE, loaded |-> FALSE]

InitRequire ==
    /\ RunIdle
    /\ RunsIdle
    /\ fin = << >>
    /\ fout = << >>
    /\ fpc = "sandbox"

\* the block calls require(id)
CallRequire(id) ==
    /\ fpc = "sandbox"
    /\ Len(fout) < MaxRequires
    /\ fout' = Append(fout, require(id))
    /\ UNCHANGED <<fin, fpc>>
    /\ UNCHANGED runVars
    /\ UNCHANGED runsVars

NextRequire == \E id \in RequireIds : CallRequire(id)

SpecRequire == InitRequire /\ [][NextRequire]_vars

(***************************************************************************)
(* The Eligibility Filter followed by the Bundler's choice of a loader:    *)
(* fout lists, for each block the filter keeps, the loader that runBlock   *)
(* gives to esbuild's build().                                             *)
(***************************************************************************)
\* runBlock, line 125
isTypeScript(block) == block.language = S_typescript \/ block.language = S_ts

\* runBlock, line 133: loader: isTypeScript ? 'ts' : 'js'
Loader(block) == IF isTypeScript(block) THEN "ts" ELSE "js"

InitLoader ==
    /\ RunIdle
    /\ RunsIdle
    /\ fin \in FilterInputs
    /\ fout = << >>
    /\ fpc = "in"

\* run(), line 164, and runBlock, lines 125-133, for every block kept
ApplyLoader ==
    /\ fpc = "in"
    /\ LET kept == filterTestableBlocks(fin)
       IN fout' = [k \in 1..Len(kept) |->
                      [block |-> kept[k], loader |-> Loader(kept[k])]]
    /\ fpc' = "out"
    /\ UNCHANGED fin
    /\ UNCHANGED runVars
    /\ UNCHANGED runsVars

NextLoader == ApplyLoader

SpecLoader == InitLoader /\ [][NextLoader]_vars

(***************************************************************************)
(* parser.ts: parseMarkdown.  A document is a string; CODE_FENCE_REGEX     *)
(* (line 15, flags g and m) is matched on its                              *)
(* characters.  Positions of characters count from 1, lastIndex and        *)
(* match.index from 0 as in the code.  fin gives the documents of a run as *)
(* lines (without their line feeds) and the places where one document ends *)
(* and the next begins; fout holds, for the loop of run() over the         *)
(* documents: raw (what each parseMarkdown call returned), allBlocks, and  *)
(* lastIndex of the module-level CODE_FENCE_REGEX.                         *)
(***************************************************************************)
\* the fence delimiter; "BT" is the grave accent U+0060
S_fence == <<"BT", "BT", "BT">>

\* \w
IsWordChar(c) ==
    \/ \E i \in 1..Len(UpperCase) : UpperCase[i] = c \/ LowerCase[i] = c
    \/ IsDigit(c)
    \/ c = "_"

\* ^ under the m flag: the start of the input or just after a line terminator
IsLineStart(s, p) == p = 1 \/ s[p - 1] \in {"\n", "\r"}

\* a fence that would be recognised in any column
FenceAtAnyColumn(s, p) == p + 2 <= Len(s) /\ SubSeq(s, p, p + 2) = S_fence

\* the line-anchored fence at position p
FenceAt(s, p) == IsLineStart(s, p) /\ p + 2 <= Len(s) /\ SubSeq(s, p, p + 2) = S_fence

\* the least position from p on that q holds of, Len(s) + 1 when there is none
FirstFrom(s, p, q(_)) ==
    LET hits == {x \in p..Len(s) : q(x)}
    IN IF hits = {} THEN Len(s) + 1 ELSE CHOOSE x \in hits : \A y \in hits : x <= y

\* the match that starts at position p, {} when there is none: group 1 takes
\* the longest run of word characters, group 2 the rest of the line, and the
\* lazy group 3 ends at the first the line-anchored fence after the line feed
MatchAt(s, p) ==
    IF ~FenceAt(s, p) THEN {}
    ELSE LET w == FirstFrom(s, p + 3, LAMBDA x : ~IsWordChar(s[x]))
             e == FirstFrom(s, w, LAMBDA x : s[x] = "\n")
             c == FirstFrom(s, e + 1, LAMBDA x : FenceAt(s, x))
         IN IF e > Len(s) \/ c > Len(s) THEN {}
            ELSE {[index |-> p - 1, g1 |-> SubSeq(s, p + 3, w - 1),
                   g2 |-> SubSeq(s, w, e - 1), g3 |-> SubSeq(s, e + 1, c - 1),
                   end |-> c + 2]}

\* a regular expression whose lastIndex stays where it was when exec fails
LastIndexAfterFailureKept(lastIndex) == lastIndex

\* RegExp.prototype.exec sets lastIndex to 0 when it finds no match
LastIndexAfterFailure(lastIndex) == 0

\* an exec that resumes at the closing fence of its match instead of after it
execFromClosingFence(s, lastIndex) ==
    LET p == FirstFrom(s, lastIndex + 1, LAMBDA x : MatchAt(s, x) # {})
    IN IF p > Len(s)
       THEN [match |-> {}, lastIndex |-> LastIndexAfterFailure(lastIndex)]
       ELSE [match |-> MatchAt(s, p), lastIndex |-> (CHOOSE m \in MatchAt(s, p) : TRUE).end - 3]

\* CODE_FENCE_REGEX.exec(content) with the given lastIndex
exec(s, lastIndex) ==
    LET p == FirstFrom(s, lastIndex + 1, LAMBDA x : MatchAt(s, x) # {})
    IN IF p > Len(s)
       THEN [match |-> {}, lastIndex |-> LastIndexAfterFailure(lastIndex)]
       ELSE [match |-> MatchAt(s, p), lastIndex |-> (CHOOSE m \in MatchAt(s, p) : TRUE).end]

\* a line count that starts at 0
SplitLengthZeroBased(s) == Cardinality({p \in 1..Len(s) : s[p] = "\n"})

\* s.split('\n').length
SplitLength(s) == Cardinality({p \in 1..Len(s) : s[p] = "\n"}) + 1

\* the while loop of parseMarkdown from the given lastIndex on: the blocks
\* pushed, and lastIndex when the loop is left
RECURSIVE ParseFrom(_, _, _)
ParseFrom(content, filePath, lastIndex) ==
    LET r == exec(content, lastIndex)
    IN IF r.match = {} THEN [blocks |-> << >>, lastIndex |-> r.lastIndex]
       ELSE LET match == CHOOSE m \in r.match : TRUE
                rest == ParseFrom(content, filePath, r.lastIndex)
            IN [blocks |->
                   <<[language |-> IF match.g1 = S_empty THEN S_text ELSE match.g1,
                      code |-> match.g3,
                      file |-> filePath,
                      line |-> SplitLength(SubSeq(content, 1, match.index)),
                      meta |-> trim(match.g2)]>> \o rest.blocks,
                lastIndex |-> rest.lastIndex]

parseMarkdown(content, filePath) == ParseFrom(content, filePath, 0).blocks

\* the sampled lines of the documents
DocLineSamples ==
    {S_fence \o S_js, S_fence, S_fence \o S_TS \o <<" ", "n", " ">>, <<"x">>,
     <<" ">> \o S_fence, S_empty}

\* lines.join('\n')
RECURSIVE Join(_)
Join(lines) ==
    IF Len(lines) = 0 THEN S_empty
    ELSE IF Len(lines) = 1 THEN lines[1]
    ELSE lines[1] \o <<"\n">> \o Join(Tail(lines))

\* the numbers of a set in increasing order
SortedSeq(S) ==
    [k \in 1..Cardinality(S) |-> CHOOSE x \in S : Cardinality({y \in S : y <= x}) = k]

\* the documents of in, in scan order, each as its lines: a document ends
\* after every line whose number is in in.ends, and after the last line
DocsOf(in) ==
    LET last == SortedSeq(in.ends \cup {Len(in.lines)})
    IN [d \in 1..Len(last) |->
           SubSeq(in.lines, IF d = 1 THEN 1 ELSE last[d - 1] + 1, last[d])]

FilePath(d) == <<"doc", d>>

ParseInputs ==
    {[lines |-> [k \in 1..n |-> ls[k]], ends |-> e] :
        n \in 1..MaxLines, ls \in [1..MaxLines -> DocLineSamples],
        e \in SUBSET (1..(MaxLines - 1))}

InitParse ==
    /\ RunIdle
    /\ RunsIdle
    /\ fin \in {in \in ParseInputs : in.ends \subseteq 1..(Len(in.lines) - 1)}
    /\ fout = [raw |-> << >>, allBlocks |-> << >>, lastIndex |-> 0]
    /\ fpc = "collect"

\* run(), lines 162-174: one turn of the loop over mdFiles
CollectFile ==
    /\ fpc = "collect"
    /\ Len(fout.raw) < Len(DocsOf(fin))
    /\ LET d == Len(fout.raw) + 1
           r == ParseFrom(Join(DocsOf(fin)[d]), FilePath(d), fout.lastIndex)
       IN fout' = [raw |-> Append(fout.raw, r.blocks),
                   allBlocks |-> fout.allBlocks \o filterTestableBlocks(r.blocks),
                   lastIndex |-> r.lastIndex]
    /\ UNCHANGED <<fin, fpc>>
    /\ UNCHANGED runVars
    /\ UNCHANGED runsVars

\* the loop is left
CollectEnd ==
    /\ fpc = "collect"
    /\ Len(fout.raw) = Len(DocsOf(fin))
    /\ fpc' = "out"
    /\ UNCHANGED <<fin, fout>>
    /\ UNCHANGED runVars
    /\ UNCHANGED runsVars

NextParse == CollectFile \/ CollectEnd

SpecParse == InitParse /\ [][NextParse]_vars

(***************************************************************************)
(* runner: the mock console of runBlock (lines 147-154) and the output of  *)
(* the result (lines 207-211).  A block is the list of its console calls;  *)
(* the first fin.sync of them are made while the script runs, the others   *)
(* by callbacks of the injected timers once runInContext has returned.     *)
(***************************************************************************)
MaxCalls == 2

ConsoleMethods == {"log", "error", "warn", "info"}

\* the argument lists of the sampled calls, each value written as its
\* JavaScript expression
ArgSamples ==
    {<< >>, <<"1">>, <<"'a'", "{}">>, <<"undefined", "[1,2]">>, <<"Object.create(null)">>}

\* values that String() cannot convert: the conversion raises a TypeError
HasString(v) == v # "Object.create(null)"

\* String(v)
StringOf(v) ==
    CASE v = "1" -> <<"1">>
      [] v = "'a'" -> <<"a">>
      [] v = "{}" -> <<"[", "o", "b", "j", "e", "c", "t", " ", "O", "b", "j", "e", "c", "t", "]">>
      [] v = "undefined" -> <<"u", "n", "d", "e", "f", "i", "n", "e", "d">>
      [] v = "[1,2]" -> <<"1", ",", "2">>

\* strs.join(' ')
RECURSIVE JoinSpace(_)
JoinSpace(strs) ==
    IF Len(strs) = 0 THEN S_empty
    ELSE IF Len(strs) = 1 THEN strs[1]
    ELSE strs[1] \o <<" ">> \o JoinSpace(Tail(strs))

\* args.map(String).join(' ') + '\n'
ConsoleLine(args) == JoinSpace([i \in 1..Len(args) |-> StringOf(args[i])]) \o <<"\n">>

\* a console whose error and warn write to a stream of their own
StreamByMethod(method) == IF method \in {"error", "warn"} THEN "stderr" ELSE "stdout"

\* the variable each of the four methods appends to
Stream(method) == "stdout"

ConsolePrograms ==
    {[calls |-> [k \in 1..n |-> [method |-> ms[k], args |-> as[k]]], sync |-> sy, catches |-> c] :
        n \in 0..MaxCalls, ms \in [1..MaxCalls -> ConsoleMethods],
        as \in [1..MaxCalls -> ArgSamples], sy \in 0..MaxCalls, c \in BOOLEAN}

InitConsole ==
    /\ RunIdle
    /\ RunsIdle
    /\ fin \in {in \in ConsolePrograms : in.sync <= Len(in.calls)}
    /\ fout = [streams |-> [st \in {"stdout", "stderr"} |-> S_empty], k |-> 0, result |-> {}]
    /\ fpc = "script"

\* the closure variables after the call c
StreamsAfter(streams, c) ==
    IF \A i \in 1..Len(c.args) : HasString(c.args[i])
    THEN [streams EXCEPT ![Stream(c.method)] = @ \o ConsoleLine(c.args)]
    ELSE streams

\* the script calls a method of the mock console; a conversion that raises
\* is caught by the block or ends the script in the catch clause of runBlock
ConsoleCall ==
    /\ fpc = "script"
    /\ fout.k < fin.sync
    /\ LET c == fin.calls[fout.k + 1]
           raises == \E i \in 1..Len(c.args) : ~HasString(c.args[i])
       IN IF raises /\ ~fin.catches
          THEN /\ fout' = [fout EXCEPT !.k = @ + 1,
                                       !.result = {[success |-> FALSE, output |-> S_empty]}]
               /\ fpc' = "returned"
          ELSE /\ fout' = [fout EXCEPT !.k = @ + 1, !.streams = StreamsAfter(@, c)]
               /\ fpc' = fpc
    /\ UNCHANGED fin
    /\ UNCHANGED runVars
    /\ UNCHANGED runsVars

\* runInContext returns: the result takes the text captured so far
ScriptEnd ==
    /\ fpc = "script"
    /\ fout.k = fin.sync
    /\ fout' = [fout EXCEPT !.result = {[success |-> TRUE, output |-> fout.streams["stdout"]]}]
    /\ fpc' = "returned"
    /\ UNCHANGED fin
    /\ UNCHANGED runVars
    /\ UNCHANGED runsVars

\* a callback the block left with a timer calls the console after the return
LateCall ==
    /\ fpc = "returned"
    /\ fout.k >= fin.sync
    /\ fout.k < Len(fin.calls)
    /\ fout' = [fout EXCEPT !.k = @ + 1, !.streams = StreamsAfter(@, fin.calls[fout.k + 1])]
    /\ UNCHANGED <<fin, fpc>>
    /\ UNCHANGED runVars
    /\ UNCHANGED runsVars

NextConsole == ConsoleCall \/ ScriptEnd \/ LateCall

SpecConsole == InitConsole /\ [][NextConsole]_vars

(***************************************************************************)
(* Vocabulary of the properties.                                           *)
(***************************************************************************)
Min(a, b) == IF a < b THEN a ELSE b

Indices == 0..(Len(allBlocks) - 1)

\* run() is past the scan of an existing path
Scheduled == runPc \in {"awaitAll", "returned", "rejected"} /\ target # "missing"

\* blocks whose runBlock call was made and whose result is not recorded yet
InFlight == {i \in DOMAIN execCount : execCount[i] >= 1 /\ results[i] = {}}

\* every worker() call has ended, by running out of items or by rejecting
AllWorkersTerminated ==
    /\ Scheduled
    /\ Len(allBlocks) >= 1
    /\ \A w \in 1..spawned : workers[w].pc \in {"done", "rejected"}

IsSpace(c) == c \in {" ", "\t"}

\* w occurs in s as a word of its own: between white space or the ends of s
ContainsWord(s, w) ==
    /\ s # Undefined
    /\ \E i \in 0..(Len(s) - Len(w)) :
          /\ SubSeq(s, i + 1, i + Len(w)) = w
          /\ (i = 0 \/ IsSpace(s[i]))
          /\ (i + Len(w) = Len(s) \/ IsSpace(s[i + Len(w) + 1]))

LastLine == stdout[Len(stdout)]

\* positions of the summary line in the output
SummaryPositions == {n \in 1..Len(stdout) : stdout[n].kind = "summary"}

\* positions of the permanent completion lines in the output
CompletionPositions == {n \in 1..Len(stdout) : stdout[n].kind \in {"pass", "fail"}}

\* the permanent completion lines, in the order written
CompletionLines == SelectSeq(stdout, LAMBDA l : l.kind \in {"pass", "fail"})

(***************************************************************************)
(* Properties of the scheduler, of runBlock and of main.                   *)
(***************************************************************************)

\* C1: no block is ever executed or given a result more than once, and when
\* run() returns with concurrency >= 1 every block index has been executed
\* exactly once and holds exactly one result, whatever the blocks did.
C1_ExactlyOnce ==
    /\ \A i \in DOMAIN execCount : execCount[i] <= 1 /\ writeCount[i] <= 1
    /\ (runPc = "returned" /\ concurrency >= 1 /\ target # "missing")
          => \A i \in Indices :
                execCount[i] = 1 /\ writeCount[i] = 1 /\ Cardinality(results[i]) = 1

\* C1 witness: a run with fewer workers than blocks has returned, and its
\* blocks include one that timed out and one that failed to bundle
C1_Witness ==
    /\ runPc = "returned"
    /\ concurrency >= 1
    /\ concurrency < Len(allBlocks)
    /\ \E i, j \in Indices :
          allBlocks[i + 1].code = "timeout" /\ allBlocks[j + 1].code = "bundleError"

\* C2: once all workers have terminated, position i of results holds the
\* result of the i-th eligible block, and no slot is ever written twice.
C2_SlotsInDocumentOrder ==
    /\ \A i \in DOMAIN writeCount : writeCount[i] <= 1
    /\ (AllWorkersTerminated /\ concurrency >= 1)
          => \A i \in Indices :
                /\ results[i] # {}
                /\ \A r \in results[i] : r.block = allBlocks[i + 1]

\* C3: with concurrency N >= 1 over M blocks, at most min(N, M) blocks are
\* started and not yet completed, and exactly min(N, M) workers are spawned.
C3_BoundedInFlight ==
    (Scheduled /\ concurrency >= 1)
       => /\ Cardinality(InFlight) <= Min(concurrency, Len(allBlocks))
          /\ Cardinality(runningTests) <= Min(concurrency, Len(allBlocks))
          /\ spawned = Min(concurrency, Len(allBlocks))

\* C3 witness: two workers over three blocks, both busy
C3_Witness ==
    /\ concurrency = 2
    /\ Len(allBlocks) = 3
    /\ Cardinality(InFlight) = 2
    /\ nextIndex = 3

\* C4: only a missing path aborts the run, and once the workers have
\* terminated every block has been executed and holds the result that
\* running it alone gives, whatever the other blocks did.
C4_FailuresStayLocal ==
    /\ runPc # "rejected"
    /\ (AllWorkersTerminated /\ concurrency >= 1)
          => \A i \in Indices :
                /\ execCount[i] = 1
                /\ results[i] # {}
                /\ results[i] = runBlock(allBlocks[i + 1]).value

\* C5: every runBlock call that has settled has resolved, never rejected, with
\* one RunResult that carries the block it was called with.
C5_RunBlockNeverRejects ==
    \A w \in 1..MaxConc :
       /\ workers[w].pc \notin {"threw", "rejected"}
       /\ workers[w].pc = "settled"
             => /\ Cardinality(workers[w].value) = 1
                /\ \A r \in workers[w].value : r.block = allBlocks[workers[w].index + 1]

\* C6: for a missing path run() returns {passed: 0, failed: 1} with the
\* not-found message as the only text on the error stream, nothing on the
\* standard output, and nothing scanned, extracted or executed.
C6_PathNotFound ==
    (target = "missing" /\ runPc # "start")
       => /\ runPc = "returned"
          /\ runResult = {[passed |-> 0, failed |-> 1]}
          /\ stderr = <<Line("pathNotFound", NoLabel, NoText, 0, 0)>>
          /\ stdout = << >>
          /\ allBlocks = << >>
          /\ spawned = 0
          /\ DOMAIN execCount = {}

\* C6 witness: run() has returned for a missing path
C6_Witness == target = "missing" /\ runPc = "returned" /\ stderr # << >>

C8_Counts ==
    (runPc = "returned" /\ Len(allBlocks) >= 1 /\ concurrency >= 1)
       => /\ passed = Cardinality({i \in Indices : \E r \in results[i] : r.success})
          /\ failed = Cardinality({i \in Indices : \E r \in results[i] : ~r.success})
          /\ passed + failed = Len(allBlocks)
          /\ runResult = {[passed |-> passed, failed |-> failed]}
          /\ LastLine.kind = "summary"
          /\ LastLine.n = passed
          /\ LastLine.total = Len(allBlocks)

\* C8 witness: a returned run with two passing blocks and one failing block
C8_Witness == runPc = "returned" /\ passed = 2 /\ failed = 1

\* C9: a block marked nocheck is never a work item, is never executed, gets no
\* completion line, and is counted neither in passed, failed nor in the total.
C9_NocheckSkipped ==
    \A k \in 1..Len(rawBlocks) :
       ContainsWord(rawBlocks[k].meta, S_nocheck)
          => /\ \A i \in 1..Len(allBlocks) : allBlocks[i] # rawBlocks[k]
             /\ \A n \in 1..Len(stdout) : stdout[n].label # Label(rawBlocks[k])
             /\ LET others == Cardinality({j \in 1..Len(rawBlocks) :
                                  ~ContainsWord(rawBlocks[j].meta, S_nocheck)})
                IN /\ passed + failed <= others
                   /\ \A n \in 1..Len(stdout) :
                         stdout[n].kind = "summary" => stdout[n].total <= others

\* C9 witness: a returned run whose document has a nocheck block that would
\* throw, next to a block that passed
C9_Witness ==
    /\ runPc = "returned"
    /\ passed >= 1
    /\ failed = 0
    /\ \E k \in 1..Len(rawBlocks) :
          ContainsWord(rawBlocks[k].meta, S_nocheck) /\ rawBlocks[k].code = "throwError"

\* C10: filterTestableBlocks keeps, in input order, exactly the blocks whose
\* lower-cased language is typescript, ts, javascript or js and whose info
\* string does not hold nocheck as a word of its own.
C10_FilterByWord ==
    fpc = "out"
       => fout = SelectSeq(fin,
                    LAMBDA b : /\ toLowerCase(b.language) \in
                                     {S_typescript, S_ts, S_javascript, S_js}
                               /\ ~ContainsWord(b.meta, S_nocheck))

(***************************************************************************)
(* Properties of the reporter.                                             *)
(***************************************************************************)

C12_NoBlocks ==
    (target # "missing" /\ runPc \notin {"start", "scan"}
        /\ \A k \in 1..Len(rawBlocks) : ~IsTestable(rawBlocks[k]))
       => /\ runPc = "returned"
          /\ runResult = {[passed |-> 0, failed |-> 0]}
          /\ LastLine.kind = "none"
          /\ Cardinality({n \in 1..Len(stdout) : stdout[n].kind = "none"}) = 1
          /\ CompletionPositions = {} /\ SummaryPositions = {}
          /\ stderr = << >>
          /\ spawned = 0
          /\ \A w \in 1..MaxConc : workers[w] = IdleWorker
          /\ DOMAIN execCount = {} /\ DOMAIN results = {}
          /\ ~timerOn

\* C12 witness: run() has returned for a directory whose documents hold
\* blocks, none of them eligible
C12_Witness ==
    /\ target = "dir"
    /\ runPc = "returned"
    /\ Len(rawBlocks) >= 2
    /\ allBlocks = << >>
    /\ LastLine.kind = "none"

(***************************************************************************)
(* Properties of the RunResult.                                            *)
(***************************************************************************)

\* the RunResult values runBlock has resolved with and the workers hold
SettledResults ==
    UNION {workers[w].value : w \in {v \in 1..MaxConc : workers[v].pc = "settled"}}

\* C14 as stated: a failing RunResult has success false, the empty output
\* and an error of one line; a successful one has success true, no error
\* and the captured text as output.
C14_SingleLineError ==
    \A r \in SettledResults :
       IF r.success
       THEN r.error = NoError /\ r.output = <<"hello">>
       ELSE r.output = S_empty /\ r.error # NoError /\ Len(r.error) = 1

\* C14 amended: a failing RunResult has success false, the empty output and
\* as error the message of the thrown Error or the string conversion of the
\* thrown value, of one line or of several; a successful one has success
\* true, no error and the captured text as output; a block gives a
\* successful result exactly when it ran to its end.
C14_ResultShape ==
    \A r \in SettledResults :
       /\ r.success <=> r.block.code = "ok"
       /\ IF r.success
          THEN r.error = NoError /\ r.output = <<"hello">>
          ELSE /\ r.output = S_empty
               /\ r.error # NoError
               /\ Len(r.error) >= 1
               /\ r.block.code = "throwError" => r.error = << <<"oops">> >>
               /\ r.block.code = "throwValue" => r.error = << <<"42">> >>
               /\ r.block.code = "timeout" => Len(r.error) = 1
               /\ r.block.code = "bundleError"
                     => Len(r.error) = 2 /\ r.error[1] = <<"Build failed with 1 error:">>

\* C14 witness: two workers hold results, one of a block that failed to
\* bundle, with an error of two lines, and one of a block that passed
C14_Witness ==
    \E r, q \in SettledResults :
       /\ ~r.success /\ r.block.code = "bundleError" /\ Len(r.error) = 2
       /\ q.success

(***************************************************************************)
(* Properties of the sandbox.                                              *)
(***************************************************************************)

\* C15: no block observes what another block wrote: every result that
\* runBlock has resolved with, held by a worker or recorded, is the result
\* the block gives when run in a process in which no block ran before.
C15_NoSharedState ==
    /\ \A r \in SettledResults : {r} = RunBlockIn(r.block, {}).value
    /\ \A i \in DOMAIN results :
          \A r \in results[i] : {r} = RunBlockIn(allBlocks[i + 1], {}).value

\* C16: every run() that returns over the same documents classifies every
\* block as the run that executes them one at a time in document order does,
\* and returns the same counts, whatever its concurrency and the order in
\* which its blocks completed.
C16_SameClassification ==
    (runPc = "returned" /\ target # "missing" /\ concurrency >= 1)
       => /\ \A i \in Indices :
                \A r \in results[i] :
                   \A q \in runBlocks(allBlocks)[i + 1].value : r.success = q.success
          /\ passed = Cardinality({i \in Indices :
                          \E q \in runBlocks(allBlocks)[i + 1].value : q.success})
          /\ failed = Len(allBlocks) - passed

\* C17: while a slow block is executing, every other worker can go on: one
\* whose runBlock has resolved can record its result and claim the next
\* item, and one whose block is bundled can run it.
C17_NoHeadOfLineBlocking ==
    \A w \in 1..MaxConc :
       (workers[w].pc = "executing" /\ allBlocks[workers[w].index + 1].code = "timeout")
          => \A v \in (1..MaxConc) \ {w} :
                /\ workers[v].pc = "settled" => ENABLED (ThreadFree /\ WorkerResume(v))
                /\ workers[v].pc = "await" => ENABLED BuildSettle(v)

(***************************************************************************)
(* Properties of two run() calls in one process.                           *)
(***************************************************************************)

\* the indices of call r whose block was started and has no result yet
InFlightOf(r) ==
    {i \in DOMAIN calls[r].execCount :
        calls[r].execCount[i] >= 1 /\ calls[r].results[i] = {}}

\* the blocks of call r with the given behaviour
BlocksOf(r, code) ==
    {k \in 1..Len(calls[r].blocks) : calls[r].blocks[k].code = code}

\* C19: of two run() calls in one process, each has a cursor, an in-flight
\* set and counters of its own: the cursor counts the blocks the call
\* started, the in-flight set holds the call's blocks that are started and
\* not completed, the counters count the call's recorded results, no block
\* is executed twice, and a call that returns has executed each of its
\* blocks once and returns the counts of its own blocks.
C19_RunsIsolated ==
    \A r \in DOMAIN calls :
       /\ \A i \in DOMAIN calls[r].execCount : calls[r].execCount[i] <= 1
       /\ calls[r].pc # "start"
             => /\ scopes[r].nextIndex
                      = Cardinality({i \in DOMAIN calls[r].execCount :
                                        calls[r].execCount[i] >= 1})
                /\ scopes[r].runningTests = InFlightOf(r)
                /\ scopes[r].passed
                      = Cardinality({i \in DOMAIN calls[r].results :
                                        \E x \in calls[r].results[i] : x.success})
                /\ scopes[r].failed
                      = Cardinality({i \in DOMAIN calls[r].results :
                                        \E x \in calls[r].results[i] : ~x.success})
       /\ calls[r].pc = "returned"
             => /\ \A i \in DOMAIN calls[r].execCount : calls[r].execCount[i] = 1
                /\ \A i \in DOMAIN calls[r].results :
                      \E x \in calls[r].results[i] : x.block = calls[r].blocks[i + 1]
                /\ calls[r].result =
                      {[passed |-> Cardinality(BlocksOf(r, "ok")),
                        failed |-> Cardinality(BlocksOf(r, "throwError"))]}

\* C19 witness: both calls are under way, each with a recorded result and a
\* block in flight, the first call's blocks passing and the second's failing
C19_Witness ==
    /\ calls # << >>
    /\ calls[1].pc = "awaitAll" /\ calls[2].pc = "awaitAll"
    /\ scopes[1].passed = 1 /\ scopes[1].failed = 0 /\ InFlightOf(1) # {}
    /\ scopes[2].failed = 1 /\ scopes[2].passed = 0 /\ InFlightOf(2) # {}

(***************************************************************************)
(* Properties of the reporter, continued.                                  *)
(***************************************************************************)

\* a token that locates code: an engine-internal path, a file URL, an eval
\* or a stdin location
IsMarker(t) == t \in InternalMarkers \cup FileMarkers \cup EvalMarkers \cup StdinMarkers

\* the positions of the tokens of a line that are text
TextPositions(line) == {k \in 1..Len(line) : line[k] # Blank /\ ~IsMarker(line[k])}

Unlocated(line) ==
    LET keep == {k \in 1..Len(line) : line[k] \notin EvalMarkers \cup StdinMarkers}
        RECURSIVE Pick(_)
        Pick(k) == IF k > Len(line) THEN << >>
                   ELSE (IF k \in keep THEN <<line[k]>> ELSE << >>) \o Pick(k + 1)
    IN Pick(1)

\* a line shown by the reporter: once its eval and stdin locations are cut
\* out it names neither node:internal nor a file URL, and holds some text
IsShown(line) ==
    /\ \A n \in 1..Len(Unlocated(line)) :
          Unlocated(line)[n] \notin InternalMarkers \cup FileMarkers
    /\ \E n \in 1..Len(Unlocated(line)) : Unlocated(line)[n] # Blank

\* what is shown of it: from its first to its last token that is no blank
Excerpt(line) ==
    LET body == Unlocated(line)
        solid == {k \in 1..Len(body) : body[k] # Blank}
        first == CHOOSE a \in solid : \A b \in solid : a <= b
        last == CHOOSE a \in solid : \A b \in solid : a >= b
    IN SubSeq(body, first, last)

C18_CompletionOrder ==
    /\ Len(CompletionLines) = Len(completed)
    /\ \A k \in 1..Len(completed) :
          /\ CompletionLines[k].label = Label(allBlocks[completed[k] + 1])
          /\ CompletionLines[k].kind = "pass"
                <=> \E r \in results[completed[k]] : r.success
    /\ \A i \in DOMAIN results :
          Cardinality({k \in 1..Len(completed) : completed[k] = i})
             = (IF results[i] = {} THEN 0 ELSE 1)
    /\ (AllWorkersTerminated /\ concurrency >= 1)
          => \A i \in Indices : \E k \in 1..Len(completed) : completed[k] = i

(***************************************************************************)
(* Properties of main.                                                     *)
(***************************************************************************)

\* the numerals of the whole numbers from 1 on that the samples hold, each
\* with its number
Numerals == {<< <<"1">>, 1 >>, << <<"2">>, 2 >>, << <<"4">>, 4 >>, << <<"1", "2">>, 12 >>}

\* C20: the concurrency main() gives to run() is a whole number >= 1 for
\* every value of --parallel; it is 1 with --runInBand (also when --parallel
\* is given), otherwise the number --parallel names, and the number of CPUs
\* when neither option is given.
C20_ConcurrencyAtLeastOne ==
    fpc = "out"
       => /\ fout \in Int
          /\ fout >= 1
          /\ fin.runInBand => fout = 1
          /\ (~fin.runInBand /\ ~fin.given) => fout = fin.cpus
          /\ (~fin.runInBand /\ fin.given)
                => \A nm \in Numerals : fin.parallel = nm[1] => fout = nm[2]

(***************************************************************************)
(* Claims C21 to C30.                                                      *)
(***************************************************************************)
\* C21: runBlocks(blocks) executes the blocks strictly one after another in
\* input order: the k-th call of runBlock is for the k-th block and is made
\* only when the k-1 blocks before it have their results.  When runBlocks
\* has settled, every block has been executed, whether or not blocks before
\* it failed, and the list returned has the length of the input and its i-th
\* RunResult belongs to the i-th block.
C21_SequentialAll ==
    /\ \A k \in 1..Len(fout.calls) : fout.calls[k] = k
    /\ Len(fout.calls) \in {Len(fout.results), Len(fout.results) + 1}
    /\ \A i \in 1..Len(fout.results) : fout.results[i].block = fin[i]
    /\ fpc \in {"out", "rejected"} =>
          /\ Len(fout.calls) = Len(fin)
          /\ Len(fout.results) = Len(fin)

\* a name that ends in .md or .mdx after a stem of at least one character
HasDocExtension(name) ==
    \E p \in 2..Len(name) : SubSeq(name, p, Len(name)) \in {S_dot_md, S_dot_mdx}

\* the sub-directories of the target on the way to path
DirsAbove(path, root) == {path[k] : k \in (Len(root) + 1)..(Len(path) - 1)}

IsHiddenOrDependency(name) == name[1] = "." \/ name = S_node_modules

\* C22: for a directory target the scanner returns, each once, exactly the
\* regular files below the target whose name has the extension .md or .mdx and
\* that are reached through sub-directories whose names neither start with
\* '.' nor equal node_modules, so no file below a hidden or dependency
\* directory is returned; for a file target it returns exactly that file.
C22_ScannerExact ==
    fpc = "out" =>
       IF fin.isFile
       THEN fout = <<fin.targetPath>>
       ELSE /\ \A i, j \in 1..Len(fout) : fout[i] = fout[j] => i = j
            /\ {fout[i] : i \in 1..Len(fout)} =
                  {f \in fin.fs.files :
                      /\ HasDocExtension(f[Len(f)])
                      /\ \A d \in DirsAbove(f, fin.targetPath) : ~IsHiddenOrDependency(d)}
            /\ \A i \in 1..Len(fout) :
                  \A d \in DirsAbove(fout[i], fin.targetPath) : ~IsHiddenOrDependency(d)

\* a scan of a directory that holds a documentation file two directories
\* down and another one below a hidden or dependency directory
C22_Witness ==
    /\ fpc = "out"
    /\ ~fin.isFile
    /\ \E f \in fin.fs.files :
          /\ HasDocExtension(f[Len(f)])
          /\ \E d \in DirsAbove(f, fin.targetPath) : IsHiddenOrDependency(d)
    /\ \E i \in 1..Len(fout) : Len(fout[i]) = Len(fin.targetPath) + 3

\* the fixed allow-list: the listed built-ins, under either spelling
ListedIds == RequireList \cup {S_node_ \o m : m \in RequireList}

\* C23: the sandbox's require(id) resolves an id only when it belongs to the
\* fixed allow-list of built-in modules; for every other id it raises at once,
\* without a lookup and without loading anything.
C23_RequireAllowList ==
    \A k \in 1..Len(fout) :
        /\ fout[k].loaded => fout[k].id \in ListedIds
        /\ fout[k].id \notin ListedIds => ~fout[k].lookup

\* what io.write receives: header, completion and summary lines
AppendedKinds == {"scanning", "found", "none", "pass", "fail", "error", "blank", "summary"}

\* in non-interactive mode nothing has been drawn, cleared or timed
NoLiveRegionUse ==
    ~interactive =>
        /\ ~liveUsed
        /\ live = {}
        /\ ~timerOn
        /\ spinnerIndex = 0
        /\ \A n \in 1..Len(stdout) : stdout[n].kind \in AppendedKinds

\* CI = 'true' or GITHUB_ACTIONS = 'true' selects non-interactive mode, on a
\* terminal too
CISelectsNonInteractive ==
    (host.CI = {"true"} \/ host.GITHUB_ACTIONS = {"true"}) => ~interactive

\* C24: in non-interactive mode the reporter performs no live-region
\* operation (no draw, no clear, no render tick timer) and its output is only
\* the appended header, completion and summary lines; a CI-indicating
\* environment variable selects this mode even on an attached terminal; and
\* the mode never changes during a run.
C24_NonInteractive ==
    /\ [](NoLiveRegionUse /\ CISelectsNonInteractive)
    /\ [][interactive' = interactive]_vars

\* a run on a terminal with CI = 'true' that recorded a failure and returned
\* without ever touching the live region
C24_Witness ==
    /\ host.isTTY = {TRUE}
    /\ host.CI = {"true"}
    /\ runPc = "returned"
    /\ failed >= 1
    /\ passed >= 1
    /\ ~liveUsed
    /\ Len(stdout) >= 4

\* the workers that hold an item: claimed, and its result not yet recorded
Holding == {w \in 1..MaxConc : workers[w].index >= 0}

\* C25: no two workers ever claim the same queue index: no index is claimed
\* twice, two workers never hold the same index, the claimed indices are at
\* every moment 0, 1, ..., nextIndex-1 (so they are claimed in increasing order
\* and none is skipped), and once the workers have terminated (concurrency
\* >= 1) they are exactly 0, 1, ..., M-1.
C25_ClaimsExact ==
    /\ \A i \in DOMAIN execCount : execCount[i] <= 1
    /\ \A w, v \in Holding : workers[w].index = workers[v].index => w = v
    /\ {i \in DOMAIN execCount : execCount[i] >= 1} = 0..(nextIndex - 1)
    /\ nextIndex <= Len(allBlocks)
    /\ (AllWorkersTerminated /\ concurrency >= 1)
          => {i \in DOMAIN execCount : execCount[i] >= 1} = Indices

\* C26: with concurrency 1 at most one block is in flight at any time; blocks
\* start in document order, each only when all blocks before it have
\* completed; they complete in document order and so do the permanent
\* completion lines; every recorded result equals the one runBlocks yields at
\* that position for the same block list, and when run() returns runBlocks
\* returns for that list too, with exactly the recorded results.
C26_RunInBandIsRunBlocks ==
    (concurrency = 1 /\ Scheduled) =>
        /\ Cardinality(runningTests) <= 1
        /\ Cardinality(InFlight) <= 1
        /\ \A i \in Indices :
              execCount[i] >= 1 => \A j \in 0..(i - 1) : results[j] # {}
        /\ \A k \in 1..Len(completed) : completed[k] = k - 1
        /\ \A k \in 1..Len(CompletionLines) :
              CompletionLines[k].label = Label(allBlocks[k])
        /\ \A i \in Indices :
              results[i] # {} => results[i] = runBlocks(allBlocks)[i + 1].value
        /\ runPc = "returned" =>
              \A i \in Indices :
                 /\ runBlocks(allBlocks)[i + 1].settle = "resolved"
                 /\ results[i] = runBlocks(allBlocks)[i + 1].value

\* a run in band of three blocks that returned, in which a block failed on
\* what an earlier block left in process.env
C26_Witness ==
    /\ concurrency = 1
    /\ runPc = "returned"
    /\ Len(allBlocks) = 3
    /\ Len(completed) = 3
    /\ allBlocks[3].code = "readEnv"
    /\ \E r \in results[2] : ~r.success

\* C27: each item moves only forward through Queued -> Running -> Completed:
\* it is claimed at most once and recorded at most once, it is in the
\* in-flight set exactly from its claim to the recording of its result, it is
\* not in the set once its completion line is written, once the workers have
\* terminated (concurrency >= 1) every item has left the set with its result
\* recorded, and nothing is written after the summary, which is written once.
C27_ItemsMoveForward ==
    /\ \A i \in DOMAIN execCount : execCount[i] <= 1 /\ writeCount[i] <= 1
    /\ \A i \in DOMAIN execCount :
          i \in runningTests <=> (execCount[i] = 1 /\ results[i] = {})
    /\ \A k \in 1..Len(completed) : completed[k] \notin runningTests
    /\ (AllWorkersTerminated /\ concurrency >= 1)
          => /\ runningTests = {}
             /\ \A i \in Indices : results[i] # {}
    /\ SummaryPositions \in {{}, {Len(stdout)}}

\* C28: in interactive mode, while the workers run, the live region lists
\* exactly the items in the reporter's in-flight set, as each completion
\* (clear, permanent lines, redraw, in one step of the reporter) leaves it;
\* it never lists an item whose completion line is written; and once the
\* workers have terminated after at least one completion (concurrency >= 1)
\* the region is cleared.
C28_LiveRegion ==
    (interactive /\ Scheduled) =>
        /\ runPc = "awaitAll" => live = renderRunningTests(runningTests)
        /\ \A k \in 1..Len(completed) : completed[k] \notin live
        /\ (AllWorkersTerminated /\ concurrency >= 1 /\ Len(completed) >= 1)
              => live = {}

\* C29: a block's code runs only during its own runBlock call: no callback
\* that a block registered through the injected timers runs (a callback can
\* only run once the block's script has ended and its result is returned),
\* and the process ends with 1 only for a missing target, a recorded failure
\* or a rejected run, never for something a block did after its result.
C29_NoLateCode ==
    /\ \A t \in timers : t[2] # "ran"
    /\ exitCode = {1} => (target = "missing" \/ failed >= 1 \/ runPc = "rejected")

\* C30: every block the Eligibility Filter keeps is bundled with the
\* TypeScript loader exactly when its language equals typescript or ts
\* ignoring letter case, and with the JavaScript loader otherwise.
C30_LoaderAgreesWithFilter ==
    fpc = "out" =>
       \A k \in 1..Len(fout) :
           fout[k].loader = "ts"
              <=> toLowerCase(fout[k].block.language) \in {S_typescript, S_ts}

(***************************************************************************)
(* Claims C31 to C39.  The fences of a document are told from its lines:   *)
(* the lines that begin with the delimiter, taken in pairs.                *)
(***************************************************************************)
FenceLines(lines) == SortedSeq({k \in 1..Len(lines) : startsWith(lines[k], S_fence)})

\* the line numbers of the opening and of the closing fence of the k-th pair
OpeningLine(lines, k) == FenceLines(lines)[2 * k - 1]
ClosingLine(lines, k) == FenceLines(lines)[2 * k]
Pairs(lines) == 1..(Len(FenceLines(lines)) \div 2)

\* the language tag of an opening fence line: the word characters that follow
\* the delimiter
TagOf(line) ==
    LET rest == SubSeq(line, Len(S_fence) + 1, Len(line))
        n == CHOOSE m \in 0..Len(rest) :
                /\ \A i \in 1..m : IsWordChar(rest[i])
                /\ m < Len(rest) => ~IsWordChar(rest[m + 1])
    IN SubSeq(rest, 1, n)

ParsedDocs == 1..Len(fout.raw)

\* C31: the language of every CodeBlock that parseMarkdown produces is the
\* language tag of its opening fence in lower case, and 'text' when the
\* opening fence carries no tag.
C31_LanguageLowerCase ==
    \A d \in ParsedDocs : \A k \in 1..Len(fout.raw[d]) :
        LET lines == DocsOf(fin)[d]
            tag == TagOf(lines[OpeningLine(lines, k)])
        IN fout.raw[d][k].language = (IF tag = S_empty THEN S_text ELSE toLowerCase(tag))

\* the number of line feeds of the document that precede line number o
NewlinesBefore(lines, o) == Len(SelectSeq(Join(SubSeq(lines, 1, o - 1) \o <<S_empty>>), LAMBDA c : c = "\n"))

\* C32: for every block that parseMarkdown extracts, line is 1 plus the
\* number of newline characters that precede the block's opening fence in
\* the document; a fence on the first line of the document has line 1.
C32_LineIsOneBased ==
    \A d \in ParsedDocs : \A k \in 1..Len(fout.raw[d]) :
        LET lines == DocsOf(fin)[d]
            o == OpeningLine(lines, k)
        IN /\ fout.raw[d][k].line = 1 + NewlinesBefore(lines, o)
           /\ o = 1 => fout.raw[d][k].line = 1

\* a document whose first line opens a block and which holds a second block
\* further down
C32_Witness ==
    \E d \in ParsedDocs :
        /\ Len(fout.raw[d]) >= 2
        /\ fout.raw[d][1].line = 1
        /\ fout.raw[d][2].line >= 3

\* the fence lines of a document that no later fence line closes: the last
\* one when their number is odd
Unclosed(lines) ==
    IF Len(FenceLines(lines)) % 2 = 1 THEN {FenceLines(lines)[Len(FenceLines(lines))]} ELSE {}

\* C33: an opening fence that no later line beginning with the delimiter
\* closes produces no CodeBlock, raises no error and writes no warning (the
\* call returns its list and nothing is written), and every pair of fence
\* lines that precedes it in the document is extracted.
C33_UnclosedFenceSkipped ==
    /\ \A d \in ParsedDocs :
           LET lines == DocsOf(fin)[d]
           IN /\ \A k \in 1..Len(fout.raw[d]) : fout.raw[d][k].line \notin Unclosed(lines)
              /\ Len(fout.raw[d]) = Cardinality(Pairs(lines))
              /\ \A k \in Pairs(lines) : fout.raw[d][k].line = OpeningLine(lines, k)
    /\ stdout = << >> /\ stderr = << >>
    /\ fpc = "out" => Len(fout.raw) = Len(DocsOf(fin))

\* a document with a pair of fence lines and, after it, an opening fence that
\* is not closed, parsed
C33_Witness ==
    \E d \in ParsedDocs :
        LET lines == DocsOf(fin)[d]
        IN /\ Unclosed(lines) # {}
           /\ Len(lines) > FenceLines(lines)[Len(FenceLines(lines))]
           /\ Pairs(lines) # {}
           /\ Len(fout.raw[d]) = 1
           /\ fpc = "out"

\* the line number of the closing fence of a block, told from the block: its
\* body ends with the line feed of the line before the closing fence
ClosingOf(b) == b.line + Len(SelectSeq(b.code, LAMBDA c : c = "\n")) + 1

\* the sequences of a list, one after the other
RECURSIVE Concat(_)
Concat(seqs) == IF Len(seqs) = 0 THEN << >> ELSE seqs[1] \o Concat(Tail(seqs))

\* C34: parseMarkdown returns the blocks of a document in increasing order
\* of position; the fenced regions of distinct blocks do not overlap (the
\* next block opens on a line after the one that closes the block before
\* it); each body is the text strictly between its two fence lines; and
\* run() puts the blocks of the documents one after the other in scan order.
C34_OrderedDisjointBlocks ==
    /\ \A d \in ParsedDocs :
           LET lines == DocsOf(fin)[d]
               bs == fout.raw[d]
           IN /\ \A k \in 1..(Len(bs) - 1) :
                     /\ bs[k].line < bs[k + 1].line
                     /\ ClosingOf(bs[k]) < bs[k + 1].line
              /\ \A k \in 1..Len(bs) :
                     /\ ClosingOf(bs[k]) <= Len(lines)
                     /\ startsWith(lines[bs[k].line], S_fence)
                     /\ startsWith(lines[ClosingOf(bs[k])], S_fence)
                     /\ bs[k].code =
                           Join(SubSeq(lines, bs[k].line + 1, ClosingOf(bs[k]) - 1) \o <<S_empty>>)
    /\ fout.allBlocks = Concat([d \in ParsedDocs |-> filterTestableBlocks(fout.raw[d])])
    /\ \A i \in 1..(Len(fout.allBlocks) - 1) :
           LET a == fout.allBlocks[i]
               b == fout.allBlocks[i + 1]
           IN a.file[2] < b.file[2] \/ (a.file = b.file /\ a.line < b.line)

\* two documents parsed, each with a block, and both blocks collected in
\* the order of the documents
C34_Witness ==
    /\ fpc = "out"
    /\ Len(fout.raw) = 2
    /\ Len(fout.raw[1]) = 1 /\ Len(fout.raw[2]) = 1
    /\ Len(fout.allBlocks) = 2
    /\ fout.allBlocks[1].file = FilePath(1) /\ fout.allBlocks[2].file = FilePath(2)

\* a block without the name of its file
Content(b) == [language |-> b.language, code |-> b.code, line |-> b.line, meta |-> b.meta]

\* C39: parseMarkdown keeps no state between calls: the lastIndex of its
\* regular expression is 0 between calls, hence on entry to every call, so
\* each call returns what a scan of its document from position 0 returns,
\* and two calls with the same content return the same blocks whatever was
\* parsed before them.
C39_NoStateBetweenCalls ==
    /\ fout.lastIndex = 0
    /\ \A d \in ParsedDocs :
           fout.raw[d] = parseMarkdown(Join(DocsOf(fin)[d]), FilePath(d))
    /\ \A d1, d2 \in ParsedDocs :
           DocsOf(fin)[d1] = DocsOf(fin)[d2] =>
               /\ Len(fout.raw[d1]) = Len(fout.raw[d2])
               /\ \A k \in 1..Len(fout.raw[d1]) :
                      Content(fout.raw[d1][k]) = Content(fout.raw[d2][k])

\* the same content parsed twice in a row, with a block found each time
C39_Witness ==
    \E d \in ParsedDocs :
        /\ d + 1 \in ParsedDocs
        /\ DocsOf(fin)[d] = DocsOf(fin)[d + 1]
        /\ fout.raw[d] # << >>
        /\ Content(fout.raw[d + 1][1]) = Content(fout.raw[d][1])

\* the calls of a list whose arguments all have a string conversion
Convertible(cs) == SelectSeq(cs, LAMBDA c : \A i \in 1..Len(c.args) : HasString(c.args[i]))

\* the lines of the calls of a list, in the order of the list
RECURSIVE LinesInOrder(_)
LinesInOrder(cs) ==
    IF Len(cs) = 0 THEN S_empty ELSE ConsoleLine(cs[1].args) \o LinesInOrder(Tail(cs))

\* C35: for a successful block, output is exactly the concatenation, in call
\* order across console.log, console.error, console.warn and console.info,
\* of each call's arguments converted to strings, joined by single spaces and
\* terminated by a newline (the calls are those the script made, and a call
\* contributes when its arguments have a conversion); no call of the four
\* methods goes to another stream.
C35_OutputIsCallsInOrder ==
    /\ \A r \in fout.result :
           r.success => r.output = LinesInOrder(Convertible(SubSeq(fin.calls, 1, fin.sync)))
    /\ fout.streams["stderr"] = S_empty

\* a successful block that called two different methods, one of them error
\* or warn, the first with two arguments
C35_Witness ==
    /\ \E r \in fout.result : r.success /\ r.output # S_empty
    /\ fin.sync = 2
    /\ fin.calls[1].method \in {"error", "warn"}
    /\ fin.calls[2].method \in {"log", "info"}
    /\ Len(fin.calls[1].args) = 2
    /\ Len(fin.calls[2].args) = 1 /\ HasString(fin.calls[2].args[1])

\* C36: whenever control is between worker steps, the shared cursor satisfies
\* 0 <= nextIndex <= M and nextIndex = passed + failed + the size of the
\* in-flight set, and the indices of the in-flight set are all below
\* nextIndex; passed and failed never decrease.
C36_CursorAccounting ==
    /\ [](/\ 0 <= nextIndex /\ nextIndex <= Len(allBlocks)
          /\ nextIndex = passed + failed + Cardinality(runningTests)
          /\ \A i \in runningTests : i < nextIndex)
    /\ [][passed' >= passed /\ failed' >= failed]_vars

\* one block passed, one failed and a third is in flight
C36_Witness ==
    /\ passed = 1 /\ failed = 1
    /\ runningTests = {2}
    /\ nextIndex = 3
    /\ runPc = "awaitAll"

\* C38: a run() called with a concurrency <= 0 that found M >= 1 eligible
\* blocks spawns no worker and executes no block, never rejects, and when it
\* has returned it has written the summary 'Results: 0/M passed' as its
\* last line and returned {passed: 0, failed: 0}.
C38_NoWorkerNoBlock ==
    (concurrency <= 0 /\ Scheduled /\ Len(allBlocks) >= 1) =>
        /\ spawned = 0
        /\ nextIndex = 0
        /\ \A i \in DOMAIN execCount : execCount[i] = 0
        /\ \A w \in 1..MaxConc : workers[w] = IdleWorker
        /\ runPc # "rejected"
        /\ runPc = "returned" =>
              /\ LastLine = Line("summary", NoLabel, <<"green">>, 0, Len(allBlocks))
              /\ runResult = {[passed |-> 0, failed |-> 0]}

\* run() called with concurrency -1 has returned with two eligible blocks
\* left unexecuted
C38_Witness ==
    /\ concurrency = -1
    /\ Len(allBlocks) = 2
    /\ runPc = "returned"
    /\ runResult = {[passed |-> 0, failed |-> 0]}
    /\ results = [i \in 0..1 |-> {}]

\* no runBlock call fails to return: none of the awaited promises rejects
EveryCallReturns == \A w \in 1..MaxConc : workers[w].pc \notin {"threw", "rejected"}

\* C37: if every runBlock call eventually returns, then run() eventually
\* returns.  A worker stops only when the cursor has reached M, and takes no
\* index once it has; the in-flight set is empty when the last worker has
\* stopped; and the render tick is cancelled when run() returns, so it never
\* fires after that.
C37_RunTerminates ==
    /\ ([]EveryCallReturns) => <>(runPc = "returned")
    /\ [](/\ \A w \in 1..spawned :
                /\ workers[w].pc = "done" => nextIndex = Len(allBlocks)
                /\ workers[w].pc # "done" => workers[w].index < Len(allBlocks)
          /\ (spawned >= 1 /\ \A w \in 1..spawned : workers[w].pc = "done") => runningTests = {}
          /\ runPc = "returned" => ~timerOn)
    /\ [][runPc = "returned" => spinnerIndex' = spinnerIndex]_vars

\* an interactive run with two workers has returned after its render tick
\* fired, every block executed and every worker stopped
C37_Witness ==
    /\ interactive
    /\ runPc = "returned"
    /\ spawned = 2
    /\ Len(allBlocks) = 3
    /\ spinnerIndex >= 1
    /\ \A w \in 1..spawned : workers[w].pc = "done"
    /\ failed >= 1

====
